---- MODULE Spec2Model ----
(***************************************************************************)
(* vscode-bisect: the command line entry point (main), the build catalog   *)
(* (Builds.fetchBuilds) and the bisection engine (Bisecter) as one state   *)
(* machine.  Every await of the TypeScript code is a step boundary: an     *)
(* action is the code that runs from one await to the next.                *)
(*                                                                         *)
(* Commits are positive integers; a released catalog of n builds is        *)
(* <<n, n-1, ..., 1>> (newest first).  Indices into a range are 0-based as *)
(* in the source; At(s, i) reads s[i] the way JavaScript does.             *)
(***************************************************************************)
EXTENDS Integers, Sequences, FiniteSets, TLC

\* ------------------------------------------------------------------ bounds
MaxBuilds == 9
MaxRetries == 2
MaxOffMain == 1
MaxCommits == 2
MaxLaunches == 2
MaxRuns == 2
MaxStops == 2
MaxEllapsed == 2
MaxTail == 1
MaxVersions == 1

\* --------------------------------------------------------------- constants
Undefined == 0
NoBuild == 0 - 1

Good == "good"
Bad == "bad"
Retry == "retry"
Quit == "quit"
BisectResponse == {Good, Bad, Quit}
PromptAnswers == {Good, Bad, Retry, Quit}

\* ----------------------------------------------------------------- helpers
\* JavaScript array read: undefined outside [0, length)
At(s, i) == IF i >= 0 /\ i < Len(s) THEN s[i + 1] ELSE Undefined

\* Array.prototype.slice(from, to) for 0 <= from
Slice(s, from, to) ==
    IF to <= from THEN <<>> ELSE [i \in 1..(to - from) |-> s[from + i]]

\* Math.round(x / 2) of a non-negative integer x: a half is rounded up
RoundHalf(x) == (x + 1) \div 2

\* the catalog the update server returns for n released builds
Released(n) == [i \in 1..n |-> n + 1 - i]

\* catalogs that list a commit more than once
DuplicateCatalogs ==
    {c \in ([1..2 -> 1..2] \cup [1..3 -> 1..2]) : Cardinality({c[i] : i \in DOMAIN c}) < Len(c)}

Catalogs == {Released(n) : n \in 0..MaxBuilds} \cup DuplicateCatalogs

\* commits a user may type: those of the largest catalog and one unreleased
CommitInputs == 1..(MaxBuilds + 1)

\* the sets of commits git reports as being on branch "main" when some are
\* not: the oldest j are off main, or all are (with every commit on main the
\* session runs as it does without --verify-main-branch)
MainBranchSets == {{c \in CommitInputs : c > j} : j \in 1..MaxOffMain} \cup {{}}

VARIABLES
    pc,                     \* position of the session
    goodCommit, badCommit,  \* main: the bounds handed to bisecter.start
    enableGitBranchChecks,  \* CONFIG.enableGitBranchChecks
    branchInfos,            \* commits that git finds on branch "main"
    catalog,                \* what the commit catalog endpoint serves
    buildsRange,            \* Bisecter.start: the builds to bisect
    state,                  \* IBisectState
    goodBuild, badBuild,    \* indices into buildsRange, or NoBuild
    quit,
    response,               \* answer of the running prompt of tryBuild
    running,                \* launched instances not yet stopped
    fetches,                \* history: requests to the catalog endpoint
    launches,               \* history: index of every launcher.launch
    judged,                 \* history: every answer of the verdict prompt
    steps,                  \* history: calls of nextState inside the loop
    report,                 \* what finishBisect printed
    error,                  \* the error the session failed with
    exitCode,
    runtime,                \* Runtime of the builds that are launched
    performance,            \* CONFIG.performance
    disk,                   \* per commit: what the build folder holds
    downloads,              \* history: archive files written, per commit
    extractions,            \* history: calls of unzip, per commit
    lpc,                    \* position of launcher.launch and of its caller
    build,                  \* the commit handed to launcher.launch
    launched,               \* history: calls of launcher.launch
    measured,               \* Launcher.measure: the loop counter i
    runs,                   \* the launches in flight or settled, in order
    cps,                    \* every process that was spawned, in order
    pending,                \* terminations that were started and not done
    opened,                 \* the URLs the launch in progress handed to open()
    stdout,                 \* the chunk of server output this step received
    killError,              \* this step's termination call reported an error
    instance,               \* the instance the last launch resolved with
    stops,                  \* results of stop() on that instance, in order
    lerror,                 \* the error launcher.launch failed with
    smallestEllapsed,       \* Launcher.measure: the smallest sample so far
    samples,                \* history: the numbers that runs not timed out resolved with
    perfFile,               \* PERFORMANCE_FILE: whether it exists, and its content
    optsCommit,             \* main: opts.commit
    optsReset,              \* main: opts.reset
    mainCommit,             \* main: commit, the build to launch instead of bisecting
    mainLaunches,           \* history: the builds main handed to launcher.launch
    dataFolder,             \* DATA_FOLDER exists
    platform,               \* constants.ts: the platform of the process
    buildFolder,            \* BUILD_FOLDER: the archive paths that exist, and the commit each holds
    call                    \* the last call of Builds and what it returned

bisecterVars == <<pc, goodCommit, badCommit, enableGitBranchChecks, branchInfos,
                  catalog, buildsRange, state, goodBuild, badBuild, quit, response,
                  running, fetches, launches, judged, steps, report, error, exitCode>>

launcherVars == <<runtime, performance, disk, downloads, extractions, lpc, build,
                  launched, measured, runs, cps, pending, opened, stdout, killError,
                  instance, stops, lerror, smallestEllapsed, samples, perfFile>>

mainVars == <<optsCommit, optsReset, mainCommit, mainLaunches, dataFolder>>

buildsVars == <<platform, buildFolder, call>>

vars == <<bisecterVars, launcherVars, mainVars, buildsVars>>

NoError == [kind |-> "none", commit |-> Undefined]
NotExited == 0 - 1
PromptCancelled == 0 - 1

\* ------------------------------------------------------------ Builds
\* Builds.indexOf: first position (0-based) holding the commit
indexOf(commit, builds) ==
    IF \E i \in 1..Len(builds) : builds[i] = commit
    THEN (CHOOSE i \in 1..Len(builds) :
             builds[i] = commit /\ \A j \in 1..(i - 1) : builds[j] # commit) - 1
    ELSE NoBuild

\* fetchBuilds without the check that the bad commit was found
fetchBuildsUnchecked(allBuilds, good, bad) ==
    LET candidateGoodCommitIndex == indexOf(good, allBuilds)
        candidateBadCommitIndex == indexOf(bad, allBuilds)
        goodCommitIndex == IF good # Undefined THEN candidateGoodCommitIndex
                           ELSE Len(allBuilds) - 1
        badCommitIndex == IF bad # Undefined /\ candidateBadCommitIndex # NoBuild
                          THEN candidateBadCommitIndex ELSE 0
    IN  IF good # Undefined /\ candidateGoodCommitIndex = NoBuild
        THEN [error |-> [kind |-> "goodNotReleased", commit |-> good], builds |-> <<>>]
        ELSE IF badCommitIndex >= goodCommitIndex
        THEN [error |-> [kind |-> "badNotNewer", commit |-> bad], builds |-> <<>>]
        ELSE [error |-> NoError,
              builds |-> Slice(allBuilds, badCommitIndex, goodCommitIndex + 1)]

\* fetchBuilds comparing the bounds with > instead of >=
fetchBuildsAllowsSame(allBuilds, good, bad) ==
    LET candidateGoodCommitIndex == indexOf(good, allBuilds)
        candidateBadCommitIndex == indexOf(bad, allBuilds)
        goodCommitIndex == IF good # Undefined THEN candidateGoodCommitIndex
                           ELSE Len(allBuilds) - 1
        badCommitIndex == IF bad # Undefined THEN candidateBadCommitIndex ELSE 0
    IN  IF good # Undefined /\ candidateGoodCommitIndex = NoBuild
        THEN [error |-> [kind |-> "goodNotReleased", commit |-> good], builds |-> <<>>]
        ELSE IF bad # Undefined /\ candidateBadCommitIndex = NoBuild
        THEN [error |-> [kind |-> "badNotReleased", commit |-> bad], builds |-> <<>>]
        ELSE IF badCommitIndex > goodCommitIndex
        THEN [error |-> [kind |-> "badNotNewer", commit |-> bad], builds |-> <<>>]
        ELSE [error |-> NoError,
              builds |-> Slice(allBuilds, badCommitIndex, goodCommitIndex + 1)]

\* fetchBuilds leaving the good bound out of the slice
fetchBuildsExclusive(allBuilds, good, bad) ==
    LET candidateGoodCommitIndex == indexOf(good, allBuilds)
        candidateBadCommitIndex == indexOf(bad, allBuilds)
        goodCommitIndex == IF good # Undefined THEN candidateGoodCommitIndex
                           ELSE Len(allBuilds) - 1
        badCommitIndex == IF bad # Undefined THEN candidateBadCommitIndex ELSE 0
    IN  IF good # Undefined /\ candidateGoodCommitIndex = NoBuild
        THEN [error |-> [kind |-> "goodNotReleased", commit |-> good], builds |-> <<>>]
        ELSE IF bad # Undefined /\ candidateBadCommitIndex = NoBuild
        THEN [error |-> [kind |-> "badNotReleased", commit |-> bad], builds |-> <<>>]
        ELSE IF badCommitIndex >= goodCommitIndex
        THEN [error |-> [kind |-> "badNotNewer", commit |-> bad], builds |-> <<>>]
        ELSE [error |-> NoError,
              builds |-> Slice(allBuilds, badCommitIndex, goodCommitIndex)]

\* Builds.fetchBuilds after the catalog has arrived
fetchBuilds(allBuilds, good, bad) ==
    LET candidateGoodCommitIndex == indexOf(good, allBuilds)
        candidateBadCommitIndex == indexOf(bad, allBuilds)
        goodCommitIndex == IF good # Undefined THEN candidateGoodCommitIndex
                           ELSE Len(allBuilds) - 1
        badCommitIndex == IF bad # Undefined THEN candidateBadCommitIndex ELSE 0
    IN  IF good # Undefined /\ candidateGoodCommitIndex = NoBuild
        THEN [error |-> [kind |-> "goodNotReleased", commit |-> good], builds |-> <<>>]
        ELSE IF bad # Undefined /\ candidateBadCommitIndex = NoBuild
        THEN [error |-> [kind |-> "badNotReleased", commit |-> bad], builds |-> <<>>]
        ELSE IF badCommitIndex >= goodCommitIndex
        THEN [error |-> [kind |-> "badNotNewer", commit |-> bad], builds |-> <<>>]
        ELSE [error |-> NoError,
              builds |-> Slice(allBuilds, badCommitIndex, goodCommitIndex + 1)]

\* Git.isOnMainBranch
isOnMainBranch(commit) == commit \in branchInfos

\* the builds of a range that are on branch "main" (--verify-main-branch)
RECURSIVE onMainBranch(_)
onMainBranch(builds) ==
    IF builds = <<>> THEN <<>>
    ELSE IF isOnMainBranch(Head(builds))
         THEN <<Head(builds)>> \o onMainBranch(Tail(builds))
         ELSE onMainBranch(Tail(builds))

\* ------------------------------------------------------------ Bisecter
\* nextState without the test for currentChunk === 1
nextStateNeverFinished(st, resp) ==
    LET chunk == RoundHalf(st.currentChunk)
    IN  [finished |-> FALSE,
         state |-> [currentChunk |-> chunk,
                    currentIndex |-> IF resp = Good
                                     THEN st.currentIndex - chunk
                                     ELSE st.currentIndex + chunk]]

\* Bisecter.nextState: [finished, state]
nextState(st, resp) ==
    IF st.currentChunk = 1
    THEN [finished |-> TRUE, state |-> st]
    ELSE LET chunk == RoundHalf(st.currentChunk)
         IN  [finished |-> FALSE,
              state |-> [currentChunk |-> chunk,
                         currentIndex |-> IF resp = Good
                                          THEN st.currentIndex - chunk
                                          ELSE st.currentIndex + chunk]]

\* finishBisect without the message for no builds
finishBisectThreeWay(bad, good) ==
    IF good # NoBuild /\ bad # NoBuild THEN "pair"
    ELSE IF bad # NoBuild THEN "allBad"
    ELSE "allGood"

\* Bisecter.finishBisect: which of its four messages is printed
finishBisect(bad, good) ==
    IF good # NoBuild /\ bad # NoBuild THEN "pair"
    ELSE IF bad # NoBuild THEN "allBad"
    ELSE IF good # NoBuild THEN "allGood"
    ELSE "noBuilds"

\* Bisecter.start: fewer than 2 builds are not bisected
tooFewBuilds(range) == Len(range) < 2

\* a search that starts at the bad bound, without the first step
initialStateAtBadBound(range) == [currentChunk |-> Len(range), currentIndex |-> 0]

\* Bisecter.start, the state the search starts from
initialState(range) ==
    nextState([currentChunk |-> Len(range), currentIndex |-> 0], Bad).state

\* the earlier Bisecter.start: the search starts in the middle of the range
middleState(range) ==
    [currentChunk |-> RoundHalf(Len(range)), currentIndex |-> RoundHalf(Len(range))]

\* the earlier Bisecter.start, pickNext: the step after a verdict
pickNext(st, isGood) ==
    IF st.currentChunk = 1
    THEN [finished |-> TRUE, state |-> st]
    ELSE LET chunk == RoundHalf(st.currentChunk)
         IN  [finished |-> FALSE,
              state |-> [currentChunk |-> chunk,
                         currentIndex |-> IF isGood THEN st.currentIndex - chunk
                                          ELSE st.currentIndex + chunk]]

\* the earlier Bisecter.start, its loop: the indices it launches from state
\* st on when the verdicts are answered in this order (TRUE for Good); the
\* last launch is the one whose verdict is still to come, if the loop goes on
RECURSIVE middleSearch(_, _, _)
middleSearch(range, st, verdicts) ==
    IF At(range, st.currentIndex) = Undefined THEN <<>>
    ELSE IF verdicts = <<>> THEN <<st.currentIndex>>
    ELSE LET next == pickNext(st, Head(verdicts))
         IN  IF next.finished THEN <<st.currentIndex>>
             ELSE <<st.currentIndex>> \o middleSearch(range, next.state, Tail(verdicts))

\* a loop that only ends when nextState reports the search as finished
hasBuildAlways(range, st) == TRUE

\* Bisecter.start, the loop condition: while (build = buildsRange[currentIndex])
hasBuild(range, st) == At(range, st.currentIndex) # Undefined

\* tryBuild without the branch for 'retry'
relaunchesNever(answer) == FALSE

\* Bisecter.tryBuild: the answer 'retry' launches the same build again
relaunches(answer) == answer = Retry

\* tryBuild stopping the instance only before it launches again
stopsInstanceOnRetryOnly(answer) == answer = Retry

\* Bisecter.tryBuild: await instance.stop() follows every answer
stopsInstance(answer) == answer \in PromptAnswers

\* Bisecter.tryBuild, its return value for an answer other than 'retry'
toResponse(answer) ==
    IF answer = Good THEN Good ELSE IF answer = Bad THEN Bad ELSE Quit

\* the loop body recording a Bad build as the good one and the reverse
afterTryBuildSwapped(range, st, bad, good, resp) ==
    IF resp = Quit
    THEN [state |-> st, badBuild |-> bad, goodBuild |-> good, quit |-> TRUE,
          stepped |-> FALSE, ended |-> TRUE, report |-> "none"]
    ELSE LET newBad == IF resp = Good THEN st.currentIndex ELSE bad
             newGood == IF resp = Bad THEN st.currentIndex ELSE good
             next == nextState(st, resp)
             ended == next.finished \/ ~hasBuild(range, next.state)
         IN  [state |-> next.state, badBuild |-> newBad, goodBuild |-> newGood,
              quit |-> FALSE, stepped |-> TRUE, ended |-> ended,
              report |-> IF ended THEN finishBisect(newBad, newGood) ELSE "none"]

\* the loop body without the quit flag: a Quit falls through to the report
afterTryBuildReportsOnQuit(range, st, bad, good, resp) ==
    IF resp = Quit
    THEN [state |-> st, badBuild |-> bad, goodBuild |-> good, quit |-> TRUE,
          stepped |-> FALSE, ended |-> TRUE, report |-> finishBisect(bad, good)]
    ELSE LET newBad == IF resp = Bad THEN st.currentIndex ELSE bad
             newGood == IF resp = Good THEN st.currentIndex ELSE good
             next == nextState(st, resp)
             ended == next.finished \/ ~hasBuild(range, next.state)
         IN  [state |-> next.state, badBuild |-> newBad, goodBuild |-> newGood,
              quit |-> FALSE, stepped |-> TRUE, ended |-> ended,
              report |-> IF ended THEN finishBisect(newBad, newGood) ELSE "none"]

\* the loop body stepping as for the opposite verdict
afterTryBuildOppositeStep(range, st, bad, good, resp) ==
    IF resp = Quit
    THEN [state |-> st, badBuild |-> bad, goodBuild |-> good, quit |-> TRUE,
          stepped |-> FALSE, ended |-> TRUE, report |-> "none"]
    ELSE LET newBad == IF resp = Bad THEN st.currentIndex ELSE bad
             newGood == IF resp = Good THEN st.currentIndex ELSE good
             next == nextState(st, IF resp = Good THEN Bad ELSE Good)
             ended == next.finished \/ ~hasBuild(range, next.state)
         IN  [state |-> next.state, badBuild |-> newBad, goodBuild |-> newGood,
              quit |-> FALSE, stepped |-> TRUE, ended |-> ended,
              report |-> IF ended THEN finishBisect(newBad, newGood) ELSE "none"]

\* Bisecter.start, the loop body after tryBuild returned resp, up to the
\* next launch or to the end of start
afterTryBuild(range, st, bad, good, resp) ==
    IF resp = Quit
    THEN [state |-> st, badBuild |-> bad, goodBuild |-> good, quit |-> TRUE,
          stepped |-> FALSE, ended |-> TRUE, report |-> "none"]
    ELSE LET newBad == IF resp = Bad THEN st.currentIndex ELSE bad
             newGood == IF resp = Good THEN st.currentIndex ELSE good
             next == nextState(st, resp)
             ended == next.finished \/ ~hasBuild(range, next.state)
         IN  [state |-> next.state, badBuild |-> newBad, goodBuild |-> newGood,
              quit |-> FALSE, stepped |-> TRUE, ended |-> ended,
              report |-> IF ended THEN finishBisect(newBad, newGood) ELSE "none"]

\* ------------------------------------------------------------ Launcher
WebLocal == "WebLocal"
WebRemote == "WebRemote"
DesktopLocal == "DesktopLocal"
Runtime == {WebLocal, WebRemote, DesktopLocal}

\* the commits handed to launcher.launch
Commits == 1..MaxCommits

\* what the build folder of a commit holds: nothing, an archive file that was
\* created and not completely written, the complete archive without the
\* executable, or the archive and the executable
DiskStates == {"none", "partial", "archive", "installed"}

\* exists(path) for the archive path of installBuild
archiveExists(d) == d # "none"

\* exists(executable) of spawnBuild
executableExists(d) == d = "installed"

\* Builds.getBuildExecutable: the path is a function of runtime and commit
getBuildExecutable(rt, commit) == [runtime |-> rt, commit |-> commit, file |-> "executable"]

NoUrl == [kind |-> "none", id |-> 0]

\* VSCODE_DEV_URL(commit)
VSCODE_DEV_URL(commit) == [kind |-> "remote", id |-> commit]

\* the URL a line "Web UI available at http://localhost:8000/?tkn=<u>" holds
LocalUrl(u) == [kind |-> "local", id |-> u]

\* chunks of the server's standard output: a chunk is a sequence of lines, a
\* line is 0 (no readiness pattern) or the token u > 0 of a readiness line
NoChunk == <<>>
Chunks == {<<0>>, <<0, 2>>, <<1, 2>>}

\* WEB_AVAILABLE_REGEX.exec(chunk)?.[1] matching any line
execAnyLineLast(chunk) ==
    IF \E i \in DOMAIN chunk : chunk[i] # 0
    THEN LocalUrl(chunk[CHOOSE i \in DOMAIN chunk :
                            chunk[i] # 0 /\ \A j \in DOMAIN chunk : chunk[j] # 0 => j <= i])
    ELSE NoUrl

\* WEB_AVAILABLE_REGEX.exec(chunk)?.[1]: the URL of the first readiness line
exec(chunk) ==
    IF \E i \in DOMAIN chunk : chunk[i] # 0
    THEN LocalUrl(chunk[CHOOSE i \in DOMAIN chunk :
                            chunk[i] # 0 /\ \A j \in DOMAIN chunk : chunk[j] # 0 => i <= j])
    ELSE NoUrl

NoLaunchError == [kind |-> "none", path |-> Undefined]

\* NOOP_INSTANCE, and the other instances launch resolves with
NOOP_INSTANCE == [kind |-> "noop", cp |-> 0, url |-> NoUrl, ellapsed |-> Undefined]
NoInstance == [kind |-> "none", cp |-> 0, url |-> NoUrl, ellapsed |-> Undefined]
WebInstance(cp, url) == [kind |-> "server", cp |-> cp, url |-> url, ellapsed |-> Undefined]
ElectronInstance(cp) ==
    [kind |-> "electron", cp |-> cp, url |-> NoUrl, ellapsed |-> Undefined]
MeasuredInstance(smallest) ==
    [kind |-> "measured", cp |-> 0, url |-> NoUrl, ellapsed |-> smallest]

\* the elapsed times a run can report, in milliseconds
Ellapsed == 1..MaxEllapsed

\* PERFORMANCE_FILE: absent, or its text as a sequence of characters, a
\* character being a decimal digit or NonDigit
NonDigit == 0 - 1
NoFile == [exists |-> FALSE, text |-> <<>>]
File(text) == [exists |-> TRUE, text |-> text]
Texts == {<<>>, <<NonDigit, 1>>} \cup {<<e>> : e \in Ellapsed}
            \cup {<<e, NonDigit>> : e \in Ellapsed}

\* parsing any digit of the text
parseFileAnyDigit(text) ==
    IF \E i \in DOMAIN text : text[i] # NonDigit
    THEN text[CHOOSE i \in DOMAIN text : text[i] # NonDigit]
    ELSE Undefined

\* launchElectron: /^(\d+)/.exec(text) and parseInt of the match (the texts
\* of the model start with at most one digit)
parseFile(text) ==
    IF text # <<>> /\ text[1] # NonDigit THEN text[1] ELSE Undefined

\* measure keeping the largest sample
smallerKeepsLargest(smallest, ellapsed) ==
    IF ellapsed = Undefined THEN smallest
    ELSE IF smallest = Undefined THEN ellapsed
    ELSE IF smallest < ellapsed THEN ellapsed
    ELSE smallest

\* Launcher.measure: what smallestEllapsed is after a run that was not timed
\* out and resolved with ellapsed
smaller(smallest, ellapsed) ==
    IF ellapsed = Undefined THEN smallest
    ELSE IF smallest = Undefined THEN ellapsed
    ELSE IF smallest > ellapsed THEN ellapsed
    ELSE smallest

\* one call of the launcher function of a runtime: its position, its abort
\* signal, the process and the browser it started; once it has settled only
\* what it started is kept
NewRun(commit) ==
    [pc |-> IF runtime = WebRemote THEN "browserLaunch" ELSE "spawnBuild",
     commit |-> commit, aborted |-> FALSE, cp |-> 0, browser |-> 0]

SettledRun(how, aborted, cp, browser) ==
    [pc |-> how, commit |-> Undefined, aborted |-> aborted, cp |-> cp, browser |-> browser]

\* the race of measure, or the await of launch, is still open for run r
Current(r) ==
    r = Len(runs) /\ runs[r].pc \notin {"resolved", "rejected"} /\ ~runs[r].aborted
        /\ lpc \in {"await", "race"}

\* the node process is alive (no uncaught exception, no process.exit)
Alive == lpc \notin {"failed", "crashed"}

SetPc(r, p) == [runs EXCEPT ![r].pc = p]

\* run r resolved or rejected
Settle(r, how) == [runs EXCEPT ![r] = SettledRun(how, @.aborted, @.cp, @.browser)]

Signalled(procs, c) ==
    IF procs[c].state = "running" THEN [procs EXCEPT ![c].state = "signalled"] ELSE procs

\* tree-kill reporting every failure as success
killResultIgnoresError(failed, alive) == "resolved"

\* stop() rejecting whenever the termination call reported an error
killResultNoProbe(failed, alive) == IF failed THEN "rejected" ELSE "resolved"

\* stop of launchLocalWebServer, the callback of kill(pid, ...): an error is
\* a failure only if process.kill(pid, 0) finds the process
killResult(failed, alive) == IF failed /\ alive THEN "rejected" ELSE "resolved"

\* Launcher.measure leaving the loop after the first pass
hasNextPassOnce(i) == FALSE

\* Launcher.measure: i++; i < PERFORMANCE_RUNS (MaxRuns passes in the model)
hasNextPass(i) == i + 1 < MaxRuns

\* launch installing the build of every runtime
installsAlways(rt) == TRUE

\* Launcher.launch: if (build.runtime !== Runtime.WebRemote) installBuild
installs(rt) == rt # WebRemote

\* installBuild without the test for a cached build
isCachedNever(d) == FALSE

\* Builds.installBuild: if (await exists(path)) return
isCached(d) == archiveExists(d)

\* spawnBuild without the test for the executable
spawnsWithoutCheck(d) == TRUE

\* Launcher.spawnBuild: the executable must exist
spawns(d) == executableExists(d)

\* the launcher before its first call (the state of the sessions that model
\* launcher.launch as one step)
\* constants.ts, Platform
MacOSX64 == "MacOSX64"
MacOSArm == "MacOSArm"
LinuxX64 == "LinuxX64"
LinuxArm == "LinuxArm"
WindowsX64 == "WindowsX64"
WindowsArm == "WindowsArm"
Platform == {MacOSX64, MacOSArm, LinuxX64, LinuxArm, WindowsX64, WindowsArm}

\* no call of Builds yet
NoCall == [op |-> "none"]

\* Builds is not followed: the build folder is never looked at
BuildsOff ==
    /\ platform = LinuxX64
    /\ buildFolder = {}
    /\ call = NoCall

\* a session without --commit and without --reset, after the Launcher class
\* was loaded
MainOff ==
    /\ optsCommit = Undefined
    /\ optsReset = FALSE
    /\ mainCommit = Undefined
    /\ mainLaunches = <<>>
    /\ dataFolder = TRUE

LauncherOff ==
    /\ runtime = DesktopLocal
    /\ performance = FALSE
    /\ disk = [c \in Commits |-> "none"]
    /\ downloads = [c \in Commits |-> 0]
    /\ extractions = [c \in Commits |-> 0]
    /\ lpc = "off"
    /\ build = Undefined
    /\ launched = 0
    /\ measured = 0
    /\ runs = <<>>
    /\ cps = <<>>
    /\ pending = {}
    /\ opened = <<>>
    /\ stdout = NoChunk
    /\ killError = FALSE
    /\ instance = NoInstance
    /\ stops = <<>>
    /\ lerror = NoLaunchError
    /\ smallestEllapsed = Undefined
    /\ samples = {}
    /\ perfFile = NoFile

\* the session before main has run
BisecterOff ==
    /\ catalog = <<>>
    /\ goodCommit = Undefined
    /\ badCommit = Undefined
    /\ enableGitBranchChecks = FALSE
    /\ branchInfos = {}
    /\ pc = "off"
    /\ buildsRange = <<>>
    /\ state = [currentChunk |-> 0, currentIndex |-> 0]
    /\ goodBuild = NoBuild
    /\ badBuild = NoBuild
    /\ quit = FALSE
    /\ response = "none"
    /\ running = 0
    /\ fetches = 0
    /\ launches = <<>>
    /\ judged = <<>>
    /\ steps = 0
    /\ report = "none"
    /\ error = NoError
    /\ exitCode = NotExited

\* ------------------------------------------------------------------- Init
FirstPrompt(good, bad) ==
    IF bad = Undefined THEN "promptBad"
    ELSE IF good = Undefined THEN "promptGood"
    ELSE "fetch"

Init ==
    /\ catalog \in Catalogs
    /\ goodCommit \in CommitInputs \cup {Undefined}
    /\ badCommit \in CommitInputs \cup {Undefined}
    /\ enableGitBranchChecks \in BOOLEAN
    /\ branchInfos \in (IF enableGitBranchChecks THEN MainBranchSets ELSE {CommitInputs})
    /\ pc = FirstPrompt(goodCommit, badCommit)
    /\ buildsRange = <<>>
    /\ state = [currentChunk |-> 0, currentIndex |-> 0]
    /\ goodBuild = NoBuild
    /\ badBuild = NoBuild
    /\ quit = FALSE
    /\ response = "none"
    /\ running = 0
    /\ fetches = 0
    /\ launches = <<>>
    /\ judged = <<>>
    /\ steps = 0
    /\ report = "none"
    /\ error = NoError
    /\ exitCode = NotExited
    /\ LauncherOff
    /\ MainOff
    /\ BuildsOff

bisectVars == <<buildsRange, state, goodBuild, badBuild, quit, response,
                running, launches, judged, steps, report>>
inputVars == <<enableGitBranchChecks, branchInfos, catalog>>

\* ------------------------------------------------------------------- main
\* main: the prompt for the bad commit has been answered
PromptBad ==
    /\ pc = "promptBad"
    /\ \E answer \in CommitInputs \cup {Undefined, PromptCancelled} :
          IF answer = PromptCancelled
          THEN /\ pc' = "done"
               /\ exitCode' = 0
               /\ UNCHANGED badCommit
          ELSE /\ badCommit' = answer
               /\ pc' = IF goodCommit = Undefined THEN "promptGood" ELSE "fetch"
               /\ UNCHANGED exitCode
    /\ UNCHANGED <<goodCommit, error, fetches>>
    /\ UNCHANGED bisectVars
    /\ UNCHANGED inputVars
    /\ UNCHANGED launcherVars
    /\ UNCHANGED <<mainVars, buildsVars>>

\* main: the prompt for the good commit has been answered
PromptGood ==
    /\ pc = "promptGood"
    /\ \E answer \in CommitInputs \cup {Undefined, PromptCancelled} :
          IF answer = PromptCancelled
          THEN /\ pc' = "done"
               /\ exitCode' = 0
               /\ UNCHANGED goodCommit
          ELSE /\ goodCommit' = answer
               /\ pc' = "fetch"
               /\ UNCHANGED exitCode
    /\ UNCHANGED <<badCommit, error, fetches>>
    /\ UNCHANGED bisectVars
    /\ UNCHANGED inputVars
    /\ UNCHANGED launcherVars
    /\ UNCHANGED <<mainVars, buildsVars>>

\* a catch that reports the error and lets the process end normally
FailExitsZero(kind, commit) ==
    /\ pc' = "done"
    /\ error' = [kind |-> kind, commit |-> commit]
    /\ exitCode' = 0

\* main: the catch around bisecter.start
Fail(kind, commit) ==
    /\ pc' = "done"
    /\ error' = [kind |-> kind, commit |-> commit]
    /\ exitCode' = 1

\* Builds.fetchAllBuilds: the catalog request fails
FetchFails ==
    /\ pc = "fetch"
    /\ Fail("network", Undefined)
    /\ fetches' = fetches + 1
    /\ UNCHANGED <<goodCommit, badCommit>>
    /\ UNCHANGED bisectVars
    /\ UNCHANGED inputVars
    /\ UNCHANGED launcherVars
    /\ UNCHANGED <<mainVars, buildsVars>>

\* Bisecter.start from the arrival of the catalog to the first launch
Start ==
    /\ pc = "fetch"
    /\ fetches' = fetches + 1
    /\ LET fetched == fetchBuilds(catalog, goodCommit, badCommit)
           range == IF enableGitBranchChecks THEN onMainBranch(fetched.builds)
                    ELSE fetched.builds
       IN  IF fetched.error # NoError
           THEN /\ Fail(fetched.error.kind, fetched.error.commit)
                /\ UNCHANGED bisectVars
           ELSE /\ buildsRange' = range
                /\ UNCHANGED error
                /\ IF tooFewBuilds(range)
                   THEN /\ report' = finishBisect(NoBuild, NoBuild)
                        /\ pc' = "done"
                        /\ exitCode' = 0
                        /\ UNCHANGED state
                   ELSE /\ state' = initialState(range)
                        /\ IF hasBuild(range, initialState(range))
                           THEN /\ pc' = "launch"
                                /\ UNCHANGED <<report, exitCode>>
                           ELSE /\ report' = finishBisect(NoBuild, NoBuild)
                                /\ pc' = "done"
                                /\ exitCode' = 0
                /\ UNCHANGED <<goodBuild, badBuild, quit, response, running,
                               launches, judged, steps>>
    /\ UNCHANGED <<goodCommit, badCommit>>
    /\ UNCHANGED inputVars
    /\ UNCHANGED launcherVars
    /\ UNCHANGED <<mainVars, buildsVars>>

\* Bisecter.tryBuild: launcher.launch resolved with an instance
Launch ==
    /\ pc = "launch"
    /\ running' = running + 1
    /\ launches' = Append(launches, state.currentIndex)
    /\ pc' = "prompt"
    /\ UNCHANGED <<buildsRange, state, goodBuild, badBuild, quit, response,
                   judged, steps, report>>
    /\ UNCHANGED <<goodCommit, badCommit, error, exitCode, fetches>>
    /\ UNCHANGED inputVars
    /\ UNCHANGED launcherVars
    /\ UNCHANGED <<mainVars, buildsVars>>

\* Bisecter.tryBuild: launcher.launch rejected (install or spawn failed)
LaunchFails ==
    /\ pc = "launch"
    /\ Fail("launch", At(buildsRange, state.currentIndex))
    /\ UNCHANGED <<goodCommit, badCommit, fetches>>
    /\ UNCHANGED bisectVars
    /\ UNCHANGED inputVars
    /\ UNCHANGED launcherVars
    /\ UNCHANGED <<mainVars, buildsVars>>

Retries == Cardinality({i \in 1..Len(judged) : judged[i].answer = Retry})

\* Bisecter.tryBuild: the judge answered the prompt
Prompt ==
    /\ pc = "prompt"
    /\ \E answer \in PromptAnswers :
          /\ answer = Retry => Retries < MaxRetries
          /\ response' = answer
          /\ judged' = Append(judged, [index |-> state.currentIndex,
                                       chunk |-> state.currentChunk,
                                       answer |-> answer])
    /\ pc' = "stop"
    /\ UNCHANGED <<buildsRange, state, goodBuild, badBuild, quit, running,
                   launches, steps, report>>
    /\ UNCHANGED <<goodCommit, badCommit, error, exitCode, fetches>>
    /\ UNCHANGED inputVars
    /\ UNCHANGED launcherVars
    /\ UNCHANGED <<mainVars, buildsVars>>

\* Bisecter.tryBuild: instance.stop() resolved; then the rest of the loop body
Stop ==
    /\ pc = "stop"
    /\ running' = IF stopsInstance(response) THEN running - 1 ELSE running
    /\ IF relaunches(response)
       THEN /\ pc' = "launch"
            /\ UNCHANGED <<state, goodBuild, badBuild, quit, steps, report, exitCode>>
       ELSE LET after == afterTryBuild(buildsRange, state, badBuild, goodBuild,
                                       toResponse(response))
            IN  /\ state' = after.state
                /\ badBuild' = after.badBuild
                /\ goodBuild' = after.goodBuild
                /\ quit' = after.quit
                /\ steps' = IF after.stepped THEN steps + 1 ELSE steps
                /\ report' = after.report
                /\ pc' = IF after.ended THEN "done" ELSE "launch"
                /\ exitCode' = IF after.ended THEN 0 ELSE exitCode
    /\ UNCHANGED <<buildsRange, response, launches, judged>>
    /\ UNCHANGED <<goodCommit, badCommit, error, fetches>>
    /\ UNCHANGED inputVars
    /\ UNCHANGED launcherVars
    /\ UNCHANGED <<mainVars, buildsVars>>

\* Bisecter.tryBuild: instance.stop() rejected
StopFails ==
    /\ pc = "stop"
    /\ Fail("stop", At(buildsRange, state.currentIndex))
    /\ UNCHANGED <<goodCommit, badCommit, fetches>>
    /\ UNCHANGED bisectVars
    /\ UNCHANGED inputVars
    /\ UNCHANGED launcherVars
    /\ UNCHANGED <<mainVars, buildsVars>>

Next ==
    \/ PromptBad
    \/ PromptGood
    \/ FetchFails
    \/ Start
    \/ Launch
    \/ LaunchFails
    \/ Prompt
    \/ Stop
    \/ StopFails

Spec == Init /\ [][Next]_vars

\* Every pending promise settles (the catalog request, launch, the prompt,
\* stop), so the continuation that awaits it runs.  The sessions checked for
\* liveness are those without --verify-main-branch: the option only changes
\* which range is searched.
InitFair == Init /\ ~enableGitBranchChecks

FairSpec == InitFair /\ [][Next]_vars /\ WF_vars(Next)

\* ==================================================================== main
\* main from its first statement, for every choice of --commit, --good,
\* --bad and --reset (without --verify-main-branch).  The Launcher class is
\* loaded, and with it the data folder recreated, before main runs.
Latest == 0 - 2

\* opts.commit: none, 'latest', or a commit hash
CommitOptions == CommitInputs \cup {Undefined, Latest}

MainInit ==
    /\ catalog \in Catalogs
    /\ goodCommit \in CommitInputs \cup {Undefined}
    /\ badCommit \in CommitInputs \cup {Undefined}
    /\ enableGitBranchChecks = FALSE
    /\ branchInfos = CommitInputs
    /\ pc = "main"
    /\ buildsRange = <<>>
    /\ state = [currentChunk |-> 0, currentIndex |-> 0]
    /\ goodBuild = NoBuild
    /\ badBuild = NoBuild
    /\ quit = FALSE
    /\ response = "none"
    /\ running = 0
    /\ fetches = 0
    /\ launches = <<>>
    /\ judged = <<>>
    /\ steps = 0
    /\ report = "none"
    /\ error = NoError
    /\ exitCode = NotExited
    /\ LauncherOff
    /\ BuildsOff
    /\ optsCommit \in CommitOptions
    /\ optsReset \in BOOLEAN
    /\ mainCommit = Undefined
    /\ mainLaunches = <<>>
    /\ dataFolder = TRUE

\* a main that asks for the bounds whether or not --commit is given
FirstStepAlwaysPrompts(opt, good, bad) == FirstPrompt(good, bad)

\* main: the prompts for the bounds are skipped when --commit is given
FirstStep(opt, good, bad) ==
    IF opt # Undefined THEN "resolve" ELSE FirstPrompt(good, bad)

\* main: --reset deletes ROOT, and the data folder with it
resetRoot(reset, exists) == IF reset THEN FALSE ELSE exists

\* main, the options up to the first prompt or to the try block
Main ==
    /\ pc = "main"
    /\ dataFolder' = resetRoot(optsReset, dataFolder)
    /\ pc' = FirstStep(optsCommit, goodCommit, badCommit)
    /\ UNCHANGED <<optsCommit, optsReset, mainCommit, mainLaunches>>
    /\ UNCHANGED <<goodCommit, badCommit, error, exitCode, fetches>>
    /\ UNCHANGED bisectVars
    /\ UNCHANGED inputVars
    /\ UNCHANGED <<launcherVars, buildsVars>>

\* main, the try block with --commit up to the launch: the commit is the
\* one given, or with 'latest' the first build of the catalog
ResolveCommit ==
    /\ pc = "resolve"
    /\ IF optsCommit = Latest
       THEN LET fetched == fetchBuilds(catalog, Undefined, Undefined)
            IN  /\ fetches' = fetches + 1
                /\ IF fetched.error # NoError
                   THEN /\ Fail(fetched.error.kind, fetched.error.commit)
                        /\ UNCHANGED mainCommit
                   ELSE /\ mainCommit' = At(fetched.builds, 0)
                        /\ pc' = IF At(fetched.builds, 0) # Undefined
                                 THEN "launchCommit" ELSE "fetch"
                        /\ UNCHANGED <<error, exitCode>>
       ELSE /\ mainCommit' = optsCommit
            /\ pc' = "launchCommit"
            /\ UNCHANGED <<error, exitCode, fetches>>
    /\ UNCHANGED <<optsCommit, optsReset, mainLaunches, dataFolder>>
    /\ UNCHANGED <<goodCommit, badCommit>>
    /\ UNCHANGED bisectVars
    /\ UNCHANGED inputVars
    /\ UNCHANGED <<launcherVars, buildsVars>>

\* main with --commit latest: the catalog request fails
ResolveFails ==
    /\ pc = "resolve"
    /\ optsCommit = Latest
    /\ Fail("network", Undefined)
    /\ fetches' = fetches + 1
    /\ UNCHANGED mainVars
    /\ UNCHANGED <<goodCommit, badCommit>>
    /\ UNCHANGED bisectVars
    /\ UNCHANGED inputVars
    /\ UNCHANGED <<launcherVars, buildsVars>>

\* main with --commit: launcher.launch resolved, and main returns
LaunchCommit ==
    /\ pc = "launchCommit"
    /\ mainLaunches' = Append(mainLaunches, mainCommit)
    /\ running' = running + 1
    /\ pc' = "done"
    /\ UNCHANGED <<optsCommit, optsReset, mainCommit, dataFolder>>
    /\ UNCHANGED <<goodCommit, badCommit, error, exitCode, fetches>>
    /\ UNCHANGED <<buildsRange, state, goodBuild, badBuild, quit, response,
                   launches, judged, steps, report>>
    /\ UNCHANGED inputVars
    /\ UNCHANGED <<launcherVars, buildsVars>>

\* main with --commit: launcher.launch rejected
LaunchCommitFails ==
    /\ pc = "launchCommit"
    /\ Fail("launch", mainCommit)
    /\ UNCHANGED mainVars
    /\ UNCHANGED <<goodCommit, badCommit, fetches>>
    /\ UNCHANGED bisectVars
    /\ UNCHANGED inputVars
    /\ UNCHANGED <<launcherVars, buildsVars>>

MainNext ==
    \/ Main
    \/ ResolveCommit
    \/ ResolveFails
    \/ LaunchCommit
    \/ LaunchCommitFails
    \/ PromptBad
    \/ PromptGood
    \/ FetchFails
    \/ Start
    \/ Launch
    \/ LaunchFails
    \/ Prompt
    \/ Stop
    \/ StopFails

MainSpec == MainInit /\ [][MainNext]_vars

\* ================================================================== Builds
\* Builds.installBuild and Builds.getBuildExecutable called for builds of
\* both local runtimes on one platform, every install running to its end.
\* A commit is the string of its characters, a path the sequence of its
\* segments; the update server names one product version and one Linux
\* archive per answer.
Hash(first, last) == [i \in 1..7 |-> IF i <= 6 THEN first ELSE last]

\* commit hashes: two beginnings, and endings 0..MaxTail for each
Hashes == {Hash(first, last) : first \in 0..1, last \in 0..MaxTail}

Versions == 1..MaxVersions

\* a path segment: a fixed name, a commit hash or its beginning, or a name
\* that carries a version or time stamp of the update server
Name(text) == [text |-> text, hash |-> <<>>, version |-> 0]
CommitName(hash) == [text |-> "", hash |-> hash, version |-> 0]
Versioned(text, version) == [text |-> text, hash |-> <<>>, version |-> version]

\* String.prototype.substring
substring(str, start, end) ==
    SubSeq(str, start + 1, IF end < Len(str) THEN end ELSE Len(str))

\* path.join of two paths
join(a, b) == a \o b

\* constants.ts
ROOT == <<Name("tmpdir"), Name("vscode-bisect")>>
BUILD_FOLDER == join(ROOT, <<Name(".builds")>>)

\* the runtimes that are installed; builds.ts names them Web and Desktop
LocalRuntimes == {WebLocal, DesktopLocal}

\* files.ts, getBuildPath
getBuildPath(plat, commit) ==
    IF plat = WindowsX64 \/ plat = WindowsArm
    THEN join(BUILD_FOLDER, <<CommitName(substring(commit, 0, 6))>>)
    ELSE join(BUILD_FOLDER, <<CommitName(commit)>>)

\* Builds.fetchBuildMeta: what the update server answers
Metas == [url : {<<Name("insider"), Versioned("code-insider-x64-.tar.gz", t)>> : t \in Versions},
          productVersion : Versions]

\* Builds.getBuildArchiveName
getBuildArchiveName(plat, rt, meta) ==
    IF rt = WebLocal
    THEN IF plat \in {MacOSX64, MacOSArm} THEN <<Name("vscode-server-darwin-web.zip")>>
         ELSE IF plat \in {LinuxX64, LinuxArm} THEN <<Name("vscode-server-linux-x64-web.tar.gz")>>
         ELSE <<Name("vscode-server-win32-x64-web.zip")>>
    ELSE IF plat = MacOSX64 THEN <<Name("VSCode-darwin.zip")>>
         ELSE IF plat = MacOSArm THEN <<Name("VSCode-darwin-arm64.zip")>>
         ELSE IF plat \in {LinuxX64, LinuxArm} THEN <<meta.url[Len(meta.url)]>>
         ELSE IF plat = WindowsX64 THEN <<Versioned("VSCode-win32-x64-.zip", meta.productVersion)>>
         ELSE <<Versioned("VSCode-win32-arm64-.zip", meta.productVersion)>>

\* Builds.getBuildName
getBuildName(plat, rt, meta) ==
    IF rt = WebLocal
    THEN IF plat \in {MacOSX64, MacOSArm} THEN <<Name("vscode-server-darwin-web")>>
         ELSE IF plat \in {LinuxX64, LinuxArm} THEN <<Name("vscode-server-linux-x64-web")>>
         ELSE <<Name("vscode-server-win32-x64-web")>>
    ELSE IF plat \in {MacOSX64, MacOSArm} THEN <<Name("Visual Studio Code - Insiders.app")>>
         ELSE IF plat = LinuxX64 THEN <<Name("VSCode-linux-x64")>>
         ELSE IF plat = LinuxArm THEN <<Name("VSCode-linux-arm64")>>
         ELSE IF plat = WindowsX64 THEN <<Versioned("VSCode-win32-x64-", meta.productVersion)>>
         ELSE <<Versioned("VSCode-win32-arm64-", meta.productVersion)>>

\* a switch over the platform that no case matched
NoCase == <<>>

\* Builds.getBuildExecutable, the switch over the platform of case Runtime.Web
webExecutable(plat) ==
    IF plat \in {MacOSX64, MacOSArm, LinuxX64, LinuxArm} THEN <<Name("server.sh")>>
    ELSE IF plat = WindowsX64 THEN <<Name("server.cmd")>>
    ELSE NoCase

\* Builds.getBuildExecutable, the switch over the platform of case
\* Runtime.Desktop
desktopExecutable(plat) ==
    IF plat \in {MacOSX64, MacOSArm} THEN <<Name("Contents"), Name("MacOS"), Name("Electron")>>
    ELSE IF plat \in {LinuxX64, LinuxArm} THEN <<Name("code-insiders")>>
    ELSE <<Name("Code - Insiders.exe")>>

\* Builds.getBuildExecutable on platform plat: case Runtime.Web does not end
\* with a break, so a platform that its switch does not name goes on with
\* case Runtime.Desktop
getBuildExecutableOn(plat, rt, commit, meta) ==
    join(join(getBuildPath(plat, commit), getBuildName(plat, rt, meta)),
         IF rt = WebLocal /\ webExecutable(plat) # NoCase THEN webExecutable(plat)
         ELSE desktopExecutable(plat))

BuildsInit ==
    /\ BisecterOff
    /\ LauncherOff
    /\ MainOff
    /\ platform \in Platform
    /\ buildFolder = {}
    /\ call = NoCall

\* Builds.installBuild for one build, to its return: the archive path, the
\* test for a cached build, and the download and extraction if it is not
BuildsInstallBuild ==
    /\ \E rt \in LocalRuntimes, commit \in Hashes, meta \in Metas :
          LET path == join(getBuildPath(platform, commit),
                           getBuildArchiveName(platform, rt, meta))
              found == {f \in buildFolder : f.path = path}
          IN  IF found # {}
              THEN /\ call' = [op |-> "installBuild", runtime |-> rt, commit |-> commit,
                               path |-> path, cached |-> TRUE,
                               holds |-> (CHOOSE f \in found : TRUE).commit]
                   /\ UNCHANGED buildFolder
              ELSE /\ call' = [op |-> "installBuild", runtime |-> rt, commit |-> commit,
                               path |-> path, cached |-> FALSE, holds |-> commit]
                   /\ buildFolder' = buildFolder \cup {[path |-> path, commit |-> commit]}
    /\ UNCHANGED platform
    /\ UNCHANGED <<bisecterVars, launcherVars, mainVars>>

\* Builds.getBuildExecutable for one build
BuildsGetBuildExecutable ==
    /\ \E rt \in LocalRuntimes, commit \in Hashes, meta \in Metas :
          call' = [op |-> "getBuildExecutable", runtime |-> rt, commit |-> commit,
                   path |-> getBuildExecutableOn(platform, rt, commit, meta)]
    /\ UNCHANGED <<platform, buildFolder>>
    /\ UNCHANGED <<bisecterVars, launcherVars, mainVars>>

BuildsNext ==
    \/ BuildsInstallBuild
    \/ BuildsGetBuildExecutable

BuildsSpec == BuildsInit /\ [][BuildsNext]_vars

\* ================================================================ Launcher
\* launcher.launch called the way Bisecter.tryBuild calls it: one launch at a
\* time, stop() on the instance it resolved with, then the next launch.
\* LauncherInit is a session without --perf, MeasureInit one with --perf.
LauncherStart ==
    /\ BisecterOff
    /\ MainOff
    /\ BuildsOff
    /\ runtime \in Runtime
    /\ disk \in [Commits -> DiskStates]
    /\ downloads = [c \in Commits |-> 0]
    /\ extractions = [c \in Commits |-> 0]
    /\ lpc = "idle"
    /\ build = Undefined
    /\ launched = 0
    /\ measured = 0
    /\ runs = <<>>
    /\ cps = <<>>
    /\ pending = {}
    /\ opened = <<>>
    /\ stdout = NoChunk
    /\ killError = FALSE
    /\ instance = NoInstance
    /\ stops = <<>>
    /\ lerror = NoLaunchError
    /\ smallestEllapsed = Undefined
    /\ samples = {}
    /\ perfFile = NoFile

LauncherInit == LauncherStart /\ performance = FALSE

\* with --perf: the builds are all cached or the build folder is empty
MeasureInit ==
    /\ LauncherStart
    /\ performance = TRUE
    /\ \E d \in {"none", "installed"} : disk = [c \in Commits |-> d]

configVars == <<runtime, performance>>
perfVars == <<smallestEllapsed, samples, perfFile>>
installVars == <<disk, downloads, extractions>>

\* Launcher.launch, the switch on the runtime, up to the first await
Dispatch(commit) ==
    IF runtime = WebRemote /\ ~performance
    THEN /\ opened' = <<VSCODE_DEV_URL(commit)>>
         /\ instance' = NOOP_INSTANCE
         /\ lpc' = "launched"
         /\ UNCHANGED runs
    ELSE /\ runs' = Append(runs, NewRun(commit))
         /\ lpc' = IF performance THEN "race" ELSE "await"
         /\ instance' = NoInstance
         /\ opened' = <<>>

\* Launcher.launch is called (the first time, or after stop() resolved); of
\* a session with --perf the first launch is followed
CallLaunch ==
    /\ \/ lpc = "idle"
       \/ lpc = "launched" /\ stops # <<>> /\ stops[Len(stops)] = "resolved"
    /\ launched < MaxLaunches
    /\ performance => launched = 0
    /\ \E commit \in Commits :
          /\ build' = commit
          /\ IF installs(runtime)
             THEN /\ lpc' = "install"
                  /\ instance' = NoInstance
                  /\ opened' = <<>>
                  /\ UNCHANGED runs
             ELSE Dispatch(commit)
    /\ launched' = launched + 1
    /\ measured' = 0
    /\ stops' = <<>>
    /\ UNCHANGED <<cps, pending, lerror>>
    /\ UNCHANGED configVars
    /\ stdout' = NoChunk
    /\ killError' = FALSE
    /\ UNCHANGED installVars
    /\ UNCHANGED bisecterVars
    /\ UNCHANGED <<mainVars, buildsVars>>
    /\ smallestEllapsed' = Undefined
    /\ samples' = {}
    /\ UNCHANGED perfFile

\* Builds.installBuild up to the download: the archive name (which asks the
\* update server on some desktop platforms) and the test for a cached build
InstallBuild ==
    /\ lpc = "install"
    /\ \E metaFails \in BOOLEAN :
          /\ metaFails => runtime = DesktopLocal
          /\ IF metaFails
             THEN /\ lpc' = "failed"
                  /\ lerror' = [kind |-> "network", path |-> Undefined]
                  /\ UNCHANGED <<runs, opened, instance>>
             ELSE IF isCached(disk[build])
             THEN /\ Dispatch(build)
                  /\ UNCHANGED lerror
             ELSE /\ lpc' = "download"
                  /\ UNCHANGED <<runs, opened, instance, lerror>>
    /\ UNCHANGED <<build, launched, measured, cps, pending, stops>>
    /\ UNCHANGED configVars
    /\ stdout' = NoChunk
    /\ killError' = FALSE
    /\ UNCHANGED installVars
    /\ UNCHANGED bisecterVars
    /\ UNCHANGED <<mainVars, buildsVars>>
    /\ UNCHANGED perfVars

\* fileGet: the request fails before a response, or the archive file is
\* created and the response ends with an error or completely
Download ==
    /\ lpc = "download"
    /\ \E outcome \in {"requestError", "streamError", "ok"} :
          /\ disk' = [disk EXCEPT ![build] =
                         IF outcome = "requestError" THEN @
                         ELSE IF outcome = "streamError" THEN "partial" ELSE "archive"]
          /\ downloads' = [downloads EXCEPT ![build] =
                              IF outcome = "requestError" THEN @ ELSE @ + 1]
          /\ IF outcome = "ok"
             THEN /\ lpc' = "unzip"
                  /\ UNCHANGED lerror
             ELSE /\ lpc' = "failed"
                  /\ lerror' = [kind |-> "network", path |-> Undefined]
    /\ UNCHANGED <<extractions, build, launched, measured, runs, cps, pending,
                   opened, instance, stops>>
    /\ UNCHANGED configVars
    /\ stdout' = NoChunk
    /\ killError' = FALSE
    /\ UNCHANGED bisecterVars
    /\ UNCHANGED <<mainVars, buildsVars>>
    /\ UNCHANGED perfVars

\* unzip: it extracts the build, or the extracting tool fails unnoticed
\* (spawnSync), or it throws; then the rest of launch up to the first await
Unzip ==
    /\ lpc = "unzip"
    /\ \E outcome \in {"ok", "unnoticed", "throws"} :
          /\ disk' = [disk EXCEPT ![build] = IF outcome = "ok" THEN "installed" ELSE @]
          /\ IF outcome = "throws"
             THEN /\ lpc' = "failed"
                  /\ lerror' = [kind |-> "unzip", path |-> Undefined]
                  /\ UNCHANGED <<runs, opened, instance>>
             ELSE /\ Dispatch(build)
                  /\ UNCHANGED lerror
    /\ extractions' = [extractions EXCEPT ![build] = @ + 1]
    /\ UNCHANGED <<downloads, build, launched, measured, cps, pending, stops>>
    /\ UNCHANGED configVars
    /\ stdout' = NoChunk
    /\ killError' = FALSE
    /\ UNCHANGED bisecterVars
    /\ UNCHANGED <<mainVars, buildsVars>>
    /\ UNCHANGED perfVars

\* Launcher.measure after await stop(): the next pass of the loop up to its
\* first await, or the return; rs are the runs as this step leaves them
NextPass(rs, smallest) ==
    /\ measured' = measured + 1
    /\ IF hasNextPass(measured)
       THEN /\ runs' = Append(rs, NewRun(build))
            /\ lpc' = "race"
            /\ UNCHANGED instance
       ELSE /\ runs' = rs
            /\ lpc' = "launched"
            /\ instance' = MeasuredInstance(smallest)

\* Launcher.spawnBuild after its awaits, and what launchLocalWebServer or
\* launchElectron do with the process up to their next await
SpawnBuild ==
    /\ Alive
    /\ \E r \in DOMAIN runs, started \in BOOLEAN :
          /\ runs[r].pc = "spawnBuild"
          /\ LET run == runs[r]
                 c == Len(cps) + 1
                 kind == IF runtime = DesktopLocal THEN "electron" ELSE "server"
             IN  IF ~spawns(disk[run.commit])
                 THEN \* throw new Error(`unable to find executable ...`)
                      /\ started
                      /\ runs' = Settle(r, "rejected")
                      /\ IF Current(r)
                         THEN /\ lpc' = "failed"
                              /\ lerror' = [kind |-> "missingExecutable",
                                            path |-> getBuildExecutable(runtime, run.commit)]
                         ELSE UNCHANGED <<lpc, lerror>>
                      /\ UNCHANGED <<cps, pending, instance>>
                 ELSE IF ~started
                 THEN \* the 'error' event of the child process has no listener
                      /\ cps' = Append(cps, [kind |-> kind, state |-> "exited", run |-> r])
                      /\ runs' = [runs EXCEPT ![r] = SettledRun("rejected", run.aborted, c, 0)]
                      /\ lpc' = "crashed"
                      /\ lerror' = [kind |-> "spawn",
                                    path |-> getBuildExecutable(runtime, run.commit)]
                      /\ UNCHANGED <<pending, instance>>
                 ELSE IF runtime = DesktopLocal
                 THEN IF run.aborted
                      THEN /\ cps' = Append(cps, [kind |-> kind, state |-> "signalled", run |-> r])
                           /\ runs' = [runs EXCEPT ![r] = SettledRun("resolved", run.aborted, c, 0)]
                           /\ UNCHANGED <<lpc, pending, instance, lerror>>
                      ELSE /\ cps' = Append(cps, [kind |-> kind, state |-> "running", run |-> r])
                           /\ IF performance
                              THEN /\ runs' = [runs EXCEPT ![r].cp = c, ![r].pc = "waitExit"]
                                   /\ UNCHANGED <<lpc, instance>>
                              ELSE /\ runs' = [runs EXCEPT ![r] = SettledRun("resolved", run.aborted, c, 0)]
                                   /\ lpc' = "launched"
                                   /\ instance' = ElectronInstance(c)
                           /\ UNCHANGED <<pending, lerror>>
                 ELSE /\ cps' = Append(cps, [kind |-> kind, state |-> "running", run |-> r])
                      /\ IF run.aborted
                         THEN \* stop() is called and not awaited, NOOP_INSTANCE returned
                              /\ pending' = pending \cup {[op |-> "kill", cp |-> c, owner |-> "abort"]}
                              /\ runs' = [runs EXCEPT ![r] =
                                              SettledRun(IF performance THEN "rejected"
                                                         ELSE "resolved", TRUE, c, 0)]
                         ELSE /\ runs' = [runs EXCEPT ![r].cp = c, ![r].pc = "waitReady"]
                              /\ UNCHANGED pending
                      /\ UNCHANGED <<lpc, instance, lerror>>
    /\ UNCHANGED <<build, launched, measured, opened, stops>>
    /\ UNCHANGED configVars
    /\ stdout' = NoChunk
    /\ killError' = FALSE
    /\ UNCHANGED installVars
    /\ UNCHANGED bisecterVars
    /\ UNCHANGED <<mainVars, buildsVars>>
    /\ perfFile' = IF runtime = DesktopLocal /\ performance /\ Len(cps') > Len(cps)
                   THEN NoFile  \* unlinkSync(PERFORMANCE_FILE) before the spawn
                   ELSE perfFile
    /\ UNCHANGED <<smallestEllapsed, samples>>

\* launchLocalWebServer, the handler of stdout 'data', and what launchLocalWeb
\* or launchWebPerformance do with the instance up to their next await
ServerOutput ==
    /\ Alive
    /\ \E r \in DOMAIN runs, chunk \in Chunks :
          /\ runs[r].pc = "waitReady"
          /\ cps[runs[r].cp].state # "exited"
          /\ stdout' = chunk
          /\ killError' = FALSE
          /\ LET run == runs[r]
                 url == exec(chunk)
             IN  IF url = NoUrl
                 THEN UNCHANGED <<runs, lpc, pending, opened, instance>>
                 ELSE IF ~performance
                 THEN /\ runs' = Settle(r, "resolved")
                      /\ opened' = IF ~run.aborted THEN Append(opened, url) ELSE opened
                      /\ IF Current(r)
                         THEN /\ lpc' = "launched"
                              /\ instance' = WebInstance(run.cp, url)
                         ELSE UNCHANGED <<lpc, instance>>
                      /\ UNCHANGED pending
                 ELSE /\ IF run.aborted
                         THEN /\ runs' = Settle(r, "resolved")
                              /\ pending' = pending \cup
                                     {[op |-> "kill", cp |-> run.cp, owner |-> "abort"]}
                         ELSE /\ runs' = SetPc(r, "browserLaunch")
                              /\ UNCHANGED pending
                      /\ UNCHANGED <<lpc, opened, instance>>
    /\ UNCHANGED <<build, launched, measured, cps, stops, lerror>>
    /\ UNCHANGED configVars
    /\ UNCHANGED installVars
    /\ UNCHANGED bisecterVars
    /\ UNCHANGED <<mainVars, buildsVars>>
    /\ UNCHANGED perfVars

\* launchWebPerformance: playwright.chromium.launch resolved
BrowserLaunched ==
    /\ Alive
    /\ \E r \in DOMAIN runs :
          /\ runs[r].pc = "browserLaunch"
          /\ LET run == runs[r]
                 c == Len(cps) + 1
             IN  /\ cps' = Append(cps, [kind |-> "browser", state |-> "running", run |-> r])
                 /\ IF run.aborted
                    THEN /\ runs' = [runs EXCEPT ![r] = SettledRun("resolved", TRUE, @.cp, c)]
                         /\ pending' = pending
                                \cup {[op |-> "close", cp |-> c, owner |-> "abort"]}
                                \cup (IF run.cp # 0
                                      THEN {[op |-> "kill", cp |-> run.cp, owner |-> "abort"]}
                                      ELSE {})
                    ELSE /\ runs' = [runs EXCEPT ![r].browser = c, ![r].pc = "page"]
                         /\ UNCHANGED pending
    /\ UNCHANGED <<lpc, build, launched, measured, opened, instance, stops, lerror>>
    /\ UNCHANGED configVars
    /\ stdout' = NoChunk
    /\ killError' = FALSE
    /\ UNCHANGED installVars
    /\ UNCHANGED bisecterVars
    /\ UNCHANGED <<mainVars, buildsVars>>
    /\ UNCHANGED perfVars

\* launchWebPerformance: browser.newPage and page.setViewportSize settled;
\* they may reject once the browser is being closed
PageReady ==
    /\ Alive
    /\ \E r \in DOMAIN runs, rejects \in BOOLEAN :
          /\ runs[r].pc = "page"
          /\ rejects => runs[r].aborted
          /\ cps[runs[r].browser].state = "exited" => rejects
          /\ runs' = IF rejects THEN Settle(r, "rejected") ELSE SetPc(r, "waitTimers")
    /\ UNCHANGED <<lpc, build, launched, measured, cps, pending, opened, instance,
                   stops, lerror>>
    /\ UNCHANGED configVars
    /\ stdout' = NoChunk
    /\ killError' = FALSE
    /\ UNCHANGED installVars
    /\ UNCHANGED bisecterVars
    /\ UNCHANGED <<mainVars, buildsVars>>
    /\ UNCHANGED perfVars

\* launchWebPerformance, the handler of page 'console': the timers line; then
\* measure and its await stop()
Timers ==
    /\ Alive
    /\ \E r \in DOMAIN runs :
          /\ runs[r].pc = "waitTimers"
          /\ cps[runs[r].browser].state # "exited"
          /\ runs' = Settle(r, "resolved")
          /\ \E ellapsed \in Ellapsed :
                IF Current(r)
                THEN /\ samples' = samples \cup {ellapsed}
                     /\ smallestEllapsed' = smaller(smallestEllapsed, ellapsed)
                ELSE UNCHANGED <<smallestEllapsed, samples>>
          /\ IF Current(r)
             THEN /\ lpc' = "measureStop"
                  /\ pending' = pending
                         \cup {[op |-> "close", cp |-> runs[r].browser, owner |-> "measure"]}
                         \cup (IF runs[r].cp # 0
                               THEN {[op |-> "kill", cp |-> runs[r].cp, owner |-> "measure"]}
                               ELSE {})
             ELSE UNCHANGED <<lpc, pending>>
    /\ UNCHANGED <<build, launched, measured, cps, opened, instance, stops, lerror>>
    /\ UNCHANGED configVars
    /\ stdout' = NoChunk
    /\ killError' = FALSE
    /\ UNCHANGED installVars
    /\ UNCHANGED bisecterVars
    /\ UNCHANGED <<mainVars, buildsVars>>
    /\ UNCHANGED perfFile

\* launchElectron with --perf: the 'exit' event; then measure, its await
\* stop() (cp.kill() of a process that has exited) and its next pass
ElectronExited ==
    /\ Alive
    /\ \E r \in DOMAIN runs :
          /\ runs[r].pc = "waitExit"
          /\ cps[runs[r].cp].state = "exited"
          /\ \E file \in {NoFile} \cup {File(text) : text \in Texts} :
                /\ perfFile' = file
                /\ IF ~file.exists
                   THEN \* readFileSync throws
                        /\ runs' = Settle(r, "rejected")
                        /\ IF Current(r)
                           THEN /\ lpc' = "failed"
                                /\ lerror' = [kind |-> "performanceFile", path |-> Undefined]
                           ELSE UNCHANGED <<lpc, lerror>>
                        /\ UNCHANGED <<measured, instance, smallestEllapsed, samples>>
                   ELSE IF Current(r)
                   THEN /\ samples' = samples \cup ({parseFile(file.text)} \ {Undefined})
                        /\ smallestEllapsed' = smaller(smallestEllapsed, parseFile(file.text))
                        /\ NextPass(Settle(r, "resolved"),
                                    smaller(smallestEllapsed, parseFile(file.text)))
                        /\ UNCHANGED lerror
                   ELSE /\ runs' = Settle(r, "resolved")
                        /\ UNCHANGED <<lpc, measured, instance, lerror,
                                       smallestEllapsed, samples>>
    /\ UNCHANGED <<build, launched, cps, pending, opened, stops>>
    /\ UNCHANGED configVars
    /\ stdout' = NoChunk
    /\ killError' = FALSE
    /\ UNCHANGED installVars
    /\ UNCHANGED bisecterVars
    /\ UNCHANGED <<mainVars, buildsVars>>

\* nothing of run r is in progress any more: its launcher call has settled or
\* waits for a server that is gone, its processes have exited and their
\* terminations have called back
AtRest(r) ==
    /\ \/ runs[r].pc \in {"resolved", "rejected"}
       \/ runs[r].pc = "waitReady" /\ cps[runs[r].cp].state = "exited"
    /\ \A c \in DOMAIN cps : cps[c].run = r => cps[c].state = "exited"
    /\ \A k \in pending : cps[k.cp].run # r

\* Launcher.measure: the timeout wins the race; abort() runs the listeners
\* that are registered, stop is the one of NOOP_INSTANCE, then the next pass.
\* PERFORMANCE_RUN_TIMEOUT after the start of a run the runs before it are
\* at rest.
Timeout ==
    /\ lpc = "race"
    /\ \A r \in 1..(Len(runs) - 1) : AtRest(r)
    /\ LET r == Len(runs)
           run == runs[r]
           serverListener == runtime # DesktopLocal /\ run.cp # 0
           electronListener == runtime = DesktopLocal /\ run.cp # 0
           performanceListener == run.browser # 0
       IN  /\ cps' = IF electronListener THEN Signalled(cps, run.cp) ELSE cps
           /\ pending' = pending
                  \cup (IF serverListener
                        THEN {[op |-> "kill", cp |-> run.cp, owner |-> "abort"]} ELSE {})
                  \cup (IF performanceListener
                        THEN {[op |-> "close", cp |-> run.browser, owner |-> "abort"]} ELSE {})
           /\ NextPass([runs EXCEPT ![r].aborted = TRUE], smallestEllapsed)
    /\ UNCHANGED <<build, launched, opened, stops, lerror>>
    /\ UNCHANGED configVars
    /\ stdout' = NoChunk
    /\ killError' = FALSE
    /\ UNCHANGED installVars
    /\ UNCHANGED bisecterVars
    /\ UNCHANGED <<mainVars, buildsVars>>
    /\ UNCHANGED perfVars

\* what follows the end of a termination k: the stop() of the caller of
\* launch settles, or the Promise.allSettled of measure does
Settled(k, result) ==
    IF k.owner = "client"
    THEN /\ lpc' = "launched"
         /\ stops' = Append(stops, result)
         /\ UNCHANGED <<runs, measured, instance, lerror>>
    ELSE IF k.owner = "measure" /\ \A o \in pending \ {k} : o.owner # "measure"
    THEN /\ NextPass(runs, smallestEllapsed)
         /\ UNCHANGED <<stops, lerror>>
    ELSE IF k.owner = "abort" /\ result = "rejected"
    THEN \* the rejection of a stop() that nobody awaits is an uncaught error
         /\ lpc' = "crashed"
         /\ lerror' = [kind |-> "unhandledRejection", path |-> Undefined]
         /\ UNCHANGED <<stops, runs, measured, instance>>
    ELSE UNCHANGED <<lpc, stops, runs, measured, instance, lerror>>

\* stop of launchLocalWebServer: tree-kill calls back; it signalled the
\* process unless it failed first
KillCallback ==
    /\ Alive
    /\ \E k \in pending, failed \in BOOLEAN, delivered \in BOOLEAN :
          /\ k.op = "kill"
          /\ ~failed => delivered
          /\ killError' = failed
          /\ LET procs == IF delivered THEN Signalled(cps, k.cp) ELSE cps
             IN  /\ cps' = procs
                 /\ pending' = pending \ {k}
                 /\ Settled(k, killResult(failed, procs[k.cp].state # "exited"))
    /\ UNCHANGED <<build, launched, opened>>
    /\ UNCHANGED configVars
    /\ stdout' = NoChunk
    /\ UNCHANGED installVars
    /\ UNCHANGED bisecterVars
    /\ UNCHANGED <<mainVars, buildsVars>>
    /\ UNCHANGED perfVars

\* stop of launchWebPerformance: browser.close() settled
BrowserClosed ==
    /\ Alive
    /\ \E k \in pending :
          /\ k.op = "close"
          /\ cps' = [cps EXCEPT ![k.cp].state = "exited"]
          /\ pending' = pending \ {k}
          /\ Settled(k, "resolved")
    /\ UNCHANGED <<build, launched, opened>>
    /\ UNCHANGED configVars
    /\ stdout' = NoChunk
    /\ killError' = FALSE
    /\ UNCHANGED installVars
    /\ UNCHANGED bisecterVars
    /\ UNCHANGED <<mainVars, buildsVars>>
    /\ UNCHANGED perfVars

\* a spawned server or desktop process exits, by itself or after a signal
ProcessExits ==
    /\ Alive
    /\ \E c \in DOMAIN cps :
          /\ cps[c].kind # "browser"
          /\ cps[c].state # "exited"
          /\ cps' = [cps EXCEPT ![c].state = "exited"]
    /\ UNCHANGED <<lpc, build, launched, measured, runs, pending, opened, instance,
                   stops, lerror>>
    /\ UNCHANGED configVars
    /\ stdout' = NoChunk
    /\ killError' = FALSE
    /\ UNCHANGED installVars
    /\ UNCHANGED bisecterVars
    /\ UNCHANGED <<mainVars, buildsVars>>
    /\ UNCHANGED perfVars

\* the caller of launch calls stop() of the instance
CallStop ==
    /\ lpc = "launched"
    /\ Len(stops) < MaxStops
    /\ IF instance.kind = "server"
       THEN /\ pending' = pending \cup {[op |-> "kill", cp |-> instance.cp, owner |-> "client"]}
            /\ lpc' = "stopping"
            /\ UNCHANGED <<cps, stops>>
       ELSE /\ cps' = IF instance.kind = "electron" THEN Signalled(cps, instance.cp) ELSE cps
            /\ stops' = Append(stops, "resolved")
            /\ UNCHANGED <<lpc, pending>>
    /\ UNCHANGED <<build, launched, measured, runs, opened, instance, lerror>>
    /\ UNCHANGED configVars
    /\ stdout' = NoChunk
    /\ killError' = FALSE
    /\ UNCHANGED installVars
    /\ UNCHANGED bisecterVars
    /\ UNCHANGED <<mainVars, buildsVars>>
    /\ UNCHANGED perfVars

\* the steps of a session without --perf
LauncherNext ==
    \/ CallLaunch
    \/ InstallBuild
    \/ Download
    \/ Unzip
    \/ SpawnBuild
    \/ ServerOutput
    \/ KillCallback
    \/ ProcessExits
    \/ CallStop

LauncherSpec == LauncherInit /\ [][LauncherNext]_vars

\* every pending callback is eventually delivered and the caller goes on
LauncherFair == LauncherInit /\ [][LauncherNext]_vars /\ WF_vars(LauncherNext)

\* the steps of a session with --perf
MeasureNext ==
    \/ CallLaunch
    \/ InstallBuild
    \/ Download
    \/ Unzip
    \/ SpawnBuild
    \/ ServerOutput
    \/ BrowserLaunched
    \/ PageReady
    \/ Timers
    \/ ElectronExited
    \/ Timeout
    \/ KillCallback
    \/ BrowserClosed
    \/ ProcessExits
    \/ CallStop

MeasureSpec == MeasureInit /\ [][MeasureNext]_vars

\* the sessions with and without --perf
LaunchSpec == (LauncherInit \/ MeasureInit) /\ [][MeasureNext]_vars

\* ============================================================ properties
\* start ran its search over a range of at least 2 builds
Searched == fetches > 0 /\ error.kind \notin {"network", "goodNotReleased", "badNotReleased", "badNotNewer"} /\ Len(buildsRange) >= 2

\* start returned after its search without a Quit and without an error
EndedNormally == Searched /\ pc = "done" /\ error = NoError /\ ~quit

OnlyGoodBad == \A i \in DOMAIN judged : judged[i].answer \in {Good, Bad}

\* every answer so far is the one of a judge for whom exactly the builds at
\* indices 0..k (the newest) are bad
NewestAreBad(k) ==
    \A i \in DOMAIN judged :
        judged[i].answer = (IF judged[i].index <= k THEN Bad ELSE Good)

\* every answer so far is the one of a judge for whom exactly the builds at
\* indices b.. (the oldest) are bad
OldestAreBad(b) ==
    \A i \in DOMAIN judged :
        judged[i].answer = (IF judged[i].index >= b THEN Bad ELSE Good)

Verdicts == Cardinality({i \in DOMAIN judged : judged[i].answer \in {Good, Bad}})

RECURSIVE CeilLog2(_)
CeilLog2(n) == IF n <= 1 THEN 0 ELSE 1 + CeilLog2((n + 1) \div 2)

\* C1: with the builds at indices 0..k bad and those at k+1..n-1 good, a
\* session that ends normally reports the pair bad = index k, good = index k+1.
C1_BoundaryPairReported ==
    \A k \in 0..(Len(buildsRange) - 2) :
        (EndedNormally /\ NewestAreBad(k))
            => (report = "pair" /\ badBuild = k /\ goodBuild = k + 1)

C2_AdjacentPair ==
    \A b \in 1..(Len(buildsRange) - 1) :
        (EndedNormally /\ NewestAreBad(b - 1))
            => /\ report \in {"pair", "allBad", "allGood"}
               /\ report = "pair" => (badBuild = b - 1 /\ goodBuild = b)
               /\ report = "allBad" => (goodBuild = NoBuild /\ badBuild <= b - 1)
               /\ report = "allGood" => (badBuild = NoBuild /\ goodBuild >= b)

C3_LoopProgress ==
    (pc = "stop" /\ pc' = "launch" /\ response # Retry)
        => (state'.currentChunk < state.currentChunk /\ state'.currentChunk >= 1)

\* C3: every loop pass makes progress and every started search ends.
C3_Terminates ==
    /\ [][C3_LoopProgress]_vars
    /\ Searched ~> (pc = "done" /\ (report # "none" \/ quit \/ error # NoError))

\* an inconsistent judge: a build is called good that is not older than a
\* build called bad
Inconsistent ==
    \E i, j \in DOMAIN judged :
        /\ judged[i].answer = Bad
        /\ judged[j].answer = Good
        /\ judged[j].index <= judged[i].index

C3_Witness ==
    /\ EndedNormally
    /\ report = "pair"
    /\ Inconsistent
    /\ \E i \in DOMAIN judged : judged[i].answer = Retry

\* C4: the builds judged in a session (launches not caused by a Retry) never
\* exceed ceil(log2(n)) + 1, and a session that ends normally judged at least 1.
JudgedBuilds == Len(launches) - Cardinality({i \in DOMAIN judged : judged[i].answer = Retry})

C4_JudgedBuildsBound ==
    Searched =>
        /\ JudgedBuilds <= CeilLog2(Len(buildsRange)) + 1
        /\ EndedNormally => JudgedBuilds >= 1

C4_Witness ==
    /\ EndedNormally
    /\ Len(buildsRange) = MaxBuilds
    /\ JudgedBuilds = CeilLog2(Len(buildsRange))

\* C5: currentChunk never drops below 1 and strictly decreases from one judged
\* build to the next, and the last build judged in a session that ends
\* normally is judged with currentChunk = 1.
C5_LastJudgedWithChunkOne ==
    /\ Searched => state.currentChunk >= 1
    /\ \A i \in DOMAIN judged :
          i > 1 => (judged[i].chunk < judged[i - 1].chunk
                    \/ (judged[i - 1].answer = Retry /\ judged[i].chunk = judged[i - 1].chunk))
    /\ EndedNormally => (judged # <<>> /\ judged[Len(judged)].chunk = 1)

\* C6: a Retry stops the instance and launches the same build again with
\* currentChunk, currentIndex, goodBuild and badBuild unchanged; every answer
\* has its own launch, so k Retry answers and a Good or Bad verdict make k + 1
\* launches of that build and one call of nextState.
C6_RetryStep ==
    (pc = "stop" /\ response = Retry /\ error' = NoError)
        => /\ pc' = "launch"
           /\ running' = running - 1
           /\ UNCHANGED <<state, goodBuild, badBuild, quit, steps, report, launches>>

C6_History ==
    /\ Len(launches) = Len(judged) + (IF pc = "prompt" THEN 1 ELSE 0)
    /\ \A i \in DOMAIN judged : launches[i] = judged[i].index
    /\ \A i \in DOMAIN judged :
          (judged[i].answer = Retry /\ i < Len(launches))
              => launches[i + 1] = launches[i]
    /\ \A i \in DOMAIN judged :
          (judged[i].answer = Retry /\ i < Len(judged))
              => judged[i + 1].chunk = judged[i].chunk
    /\ steps = Verdicts - (IF pc = "stop" /\ response \in {Good, Bad} THEN 1 ELSE 0)
                        - (IF error.kind = "stop" /\ response \in {Good, Bad} THEN 1 ELSE 0)

\* C6: every Retry step is as in C6_RetryStep and the launch, answer and
\* step histories agree as in C6_History.
C6_RetryRelaunchesSameBuild ==
    /\ [][C6_RetryStep]_vars
    /\ [](C6_History)

\* two Retry answers and then Bad for the first build: three launches of it
C6_Witness ==
    /\ Len(judged) = 3
    /\ judged[1].answer = Retry
    /\ judged[2].answer = Retry
    /\ judged[3].answer = Bad
    /\ launches = <<judged[1].index, judged[1].index, judged[1].index, state.currentIndex>>
    /\ steps = 1
    /\ pc = "prompt"

\* C7: a Quit ends the loop without a call of nextState, after the instance
\* was stopped; no report is printed whatever was recorded before, and the
\* session exits with code 0.  (A stop() that rejects is the error path.)
C7_QuitStep ==
    (pc = "stop" /\ response = Quit /\ error' = NoError)
        => /\ pc' = "done"
           /\ quit'
           /\ running' = 0
           /\ report' = "none"
           /\ exitCode' = 0
           /\ UNCHANGED <<state, goodBuild, badBuild, steps, launches, judged>>

\* C7: every Quit step is as in C7_QuitStep and a session that was quit has
\* no report, no running instance and exit code 0.
C7_QuitEndsSilently ==
    /\ [][C7_QuitStep]_vars
    /\ [](quit => (pc = "done" /\ report = "none" /\ exitCode = 0 /\ running = 0
                   /\ judged[Len(judged)].answer = Quit))

C7_Witness ==
    /\ quit
    /\ pc = "done"
    /\ goodBuild # NoBuild
    /\ badBuild # NoBuild
    /\ report = "none"
    /\ exitCode = 0

\* start returned for a range of fewer than 2 builds
ShortRange == fetches > 0 /\ pc = "done" /\ error = NoError /\ Len(buildsRange) < 2

InCatalog(commit) == \E i \in DOMAIN catalog : catalog[i] = commit
Unreleased(commit) == commit # Undefined /\ ~InCatalog(commit)

C9_UnreleasedCommitRejected ==
    (fetches > 0 /\ error.kind # "network"
        /\ (Unreleased(goodCommit) \/ Unreleased(badCommit)))
        => /\ pc = "done"
           /\ exitCode = 1
           /\ error.kind \in {"goodNotReleased", "badNotReleased"}
           /\ error.kind = "goodNotReleased" => error.commit = goodCommit
           /\ error.kind = "badNotReleased" => error.commit = badCommit
           /\ Unreleased(error.commit)
           /\ launches = <<>>
           /\ judged = <<>>
           /\ running = 0

C9_Witness ==
    /\ fetches > 0
    /\ InCatalog(goodCommit)
    /\ Unreleased(badCommit)
    /\ Len(catalog) >= 2
    /\ error = [kind |-> "badNotReleased", commit |-> badCommit]

\* C10: when both bounds are found (or defaulted) and the position of the bad
\* bound is not strictly before the position of the good bound, fetchBuilds
\* fails and nothing is launched.
FirstPosition(commit) ==
    CHOOSE i \in DOMAIN catalog :
        catalog[i] = commit /\ \A j \in DOMAIN catalog : catalog[j] = commit => i <= j

BadPosition == IF badCommit = Undefined THEN 1 ELSE FirstPosition(badCommit)
GoodPosition == IF goodCommit = Undefined THEN Len(catalog) ELSE FirstPosition(goodCommit)

C10_BadNotNewerRejected ==
    (fetches > 0 /\ error.kind # "network"
        /\ ~Unreleased(goodCommit) /\ ~Unreleased(badCommit)
        /\ BadPosition >= GoodPosition)
        => /\ pc = "done"
           /\ exitCode = 1
           /\ error.kind = "badNotNewer"
           /\ launches = <<>>
           /\ judged = <<>>
           /\ report = "none"

C10_Witness ==
    /\ fetches > 0
    /\ goodCommit # Undefined
    /\ goodCommit = badCommit
    /\ InCatalog(goodCommit)
    /\ error.kind = "badNotNewer"

C10_WitnessDefaultBounds ==
    /\ fetches > 0
    /\ goodCommit = Undefined
    /\ badCommit = Undefined
    /\ Len(catalog) = 1
    /\ error.kind = "badNotNewer"

\* fetchBuilds returned a range (the catalog arrived and the bounds passed)
FetchSucceeded ==
    fetches > 0
        /\ error.kind \notin {"network", "goodNotReleased", "badNotReleased", "badNotNewer"}

\* the bounds that must be rejected: the same commit supplied for both, or
\* both found (or defaulted) with the bad one not strictly newer
SameBounds == goodCommit # Undefined /\ goodCommit = badCommit
OutOfOrder ==
    ~Unreleased(goodCommit) /\ ~Unreleased(badCommit) /\ BadPosition >= GoodPosition
RejectedBounds == {"goodNotReleased", "badNotReleased", "badNotNewer"}

\* C11 as stated: bounds that are the same commit or out of order are rejected
\* before any network or process activity: no catalog fetch, no download and
\* no launch precedes the rejection.
C11_RejectedBeforeAnyActivity ==
    (pc = "done" /\ error.kind = "badNotNewer")
        => (fetches = 0 /\ launches = <<>> /\ running = 0)

\* C11, amended: such bounds are rejected by fetchBuilds once the catalog has
\* arrived: exactly one catalog request precedes the rejection, nothing is
\* rejected for its order before that request, and no launch (hence no
\* archive download), no verdict prompt and no report precedes or follows it.
C11_RejectedAfterCatalogFetchOnly ==
    /\ error.kind \in RejectedBounds => fetches = 1
    /\ (fetches > 0 /\ error.kind # "network" /\ (SameBounds \/ OutOfOrder))
          => /\ pc = "done"
             /\ exitCode = 1
             /\ error.kind \in RejectedBounds
             /\ fetches = 1
             /\ launches = <<>>
             /\ judged = <<>>
             /\ running = 0
             /\ report = "none"

C11_Witness ==
    /\ fetches = 1
    /\ goodCommit # Undefined
    /\ badCommit # Undefined
    /\ goodCommit # badCommit
    /\ InCatalog(goodCommit)
    /\ InCatalog(badCommit)
    /\ BadPosition > GoodPosition
    /\ error = [kind |-> "badNotNewer", commit |-> badCommit]
    /\ launches = <<>>

\* C12: when fetchBuilds succeeds the range is the catalog from the position
\* of the bad bound (default: the first entry) through the position of the
\* good bound (default: the last entry), in catalog order: its length is
\* goodIndex - badIndex + 1 >= 2, it starts with the bad bound and ends with
\* the good bound.  (Stated for sessions without --verify-main-branch, where
\* buildsRange is what fetchBuilds returned.)
C12_InclusiveSlice ==
    (FetchSucceeded /\ ~enableGitBranchChecks)
        => /\ BadPosition < GoodPosition
           /\ Len(buildsRange) = GoodPosition - BadPosition + 1
           /\ Len(buildsRange) >= 2
           /\ \A i \in 1..Len(buildsRange) : buildsRange[i] = catalog[BadPosition + i - 1]
           /\ buildsRange[1] = (IF badCommit = Undefined THEN catalog[1] ELSE badCommit)
           /\ buildsRange[Len(buildsRange)] =
                 (IF goodCommit = Undefined THEN catalog[Len(catalog)] ELSE goodCommit)

C12_Witness ==
    /\ FetchSucceeded
    /\ ~enableGitBranchChecks
    /\ Len(catalog) = 6
    /\ badCommit = 5
    /\ goodCommit = 2
    /\ buildsRange = <<5, 4, 3, 2>>

\* C13: no two launched instances run at the same time: when a process or a
\* browser of one launch (one measured run) is running, none of another is.
C13_NoTwoInstancesRunning ==
    \A c, d \in DOMAIN cps :
        (cps[c].state = "running" /\ cps[d].state = "running") => cps[c].run = cps[d].run

\* C14: every instance launch resolved with is stopped once before tryBuild
\* launches again or returns: at most one instance exists, none when a launch
\* starts, none when the session reports or was quit; an instance appears only
\* by a launch and disappears only by the stop() that follows its answer.
C14_StopStep ==
    /\ (pc = "stop" /\ error' = NoError) => running' = running - 1
    /\ running' < running => pc = "stop"
    /\ running' > running => (pc = "launch" /\ running = 0 /\ running' = 1)

C14_Stopped ==
    /\ running \in {0, 1}
    /\ pc = "launch" => running = 0
    /\ pc \in {"prompt", "stop"} => running = 1
    /\ (report # "none" \/ quit) => running = 0
    /\ Len(launches) = Len(judged) + (IF pc = "prompt" THEN 1 ELSE 0)
    /\ running = (IF pc \in {"prompt", "stop"} \/ error.kind = "stop" THEN 1 ELSE 0)

\* C14: every step is as in C14_StopStep and every state as in C14_Stopped.
C14_EveryInstanceStoppedOnce ==
    /\ [][C14_StopStep]_vars
    /\ [](C14_Stopped)

C14_Witness ==
    /\ EndedNormally
    /\ report = "pair"
    /\ \E i \in DOMAIN judged : judged[i].answer = Retry
    /\ Len(launches) = Len(judged)
    /\ Len(launches) >= 4
    /\ running = 0

\* the result of the stop() that this step settled for the caller of launch
StopSettles == Len(stops') > Len(stops)
StopResult == stops'[Len(stops')]

\* C15 as stated: calling stop() twice on an instance never rejects, for
\* every kind of instance.
C15_StopTwiceNeverRejects ==
    Len(stops) >= 2 => (stops[1] = "resolved" /\ stops[2] = "resolved")

\* C15, amended: stop() never rejects for a remote web or desktop instance,
\* and never for a local web server whose process has exited; after a stop()
\* that resolved, a further stop() leaves the state of every process as it is.
C15_StopStep ==
    StopSettles =>
        /\ instance.kind # "server" => StopResult = "resolved"
        /\ (instance.kind = "server" /\ cps[instance.cp].state = "exited")
              => StopResult = "resolved"
        /\ (stops # <<>> /\ stops[Len(stops)] = "resolved") => cps' = cps

\* C15, amended: every step that settles a stop() is as in C15_StopStep.
C15_SecondStopHarmless == [][C15_StopStep]_vars

C15_Witness ==
    /\ instance.kind = "server"
    /\ stops = <<"resolved", "resolved">>
    /\ killError
    /\ cps[instance.cp].state = "exited"

\* C16: stop() of a local web server rejects only if the termination call
\* reported an error and the process is still there afterwards; if the process
\* has exited, stop() resolves whatever the termination call reported.
C16_StopStep ==
    (StopSettles /\ instance.kind = "server") =>
        /\ StopResult = "rejected"
              => (killError' /\ cps'[instance.cp].state # "exited")
        /\ cps'[instance.cp].state = "exited" => StopResult = "resolved"

\* C16: every step that settles the stop() of a local web server is as in
\* C16_StopStep.
C16_StopFailsOnlyIfAlive == [][C16_StopStep]_vars

C16_Witness ==
    /\ instance.kind = "server"
    /\ stops = <<"resolved">>
    /\ killError
    /\ cps[instance.cp].state = "exited"
    /\ lpc = "launched"

\* C17: a build is downloaded and extracted at most once: installBuild of a
\* build whose archive path exists goes on to the launch without a download
\* and without an extraction, and a download starts only without that path.
C17_InstallStep ==
    /\ (lpc = "install" /\ archiveExists(disk[build]))
          => (downloads' = downloads /\ extractions' = extractions
              /\ disk' = disk /\ lpc' \notin {"download", "unzip"})
    /\ lpc' = "download" => ~archiveExists(disk'[build'])
    /\ \A c \in Commits : downloads'[c] > downloads[c] => ~archiveExists(disk[c])

\* C17: every step is as in C17_InstallStep and no build has been downloaded
\* or extracted twice.
C17_InstalledAtMostOnce ==
    /\ [][C17_InstallStep]_vars
    /\ [](\A c \in Commits : downloads[c] <= 1 /\ extractions[c] <= 1)

\* the same build launched twice: installed by the first launch, found cached
\* by the second
C17_Witness ==
    /\ launched = 2
    /\ lpc \in {"await", "launched"}
    /\ downloads[build] = 1
    /\ extractions[build] = 1
    /\ \A c \in Commits \ {build} : disk[c] = "none" /\ downloads[c] = 0

\* C18: a local launch whose executable is missing at the spawn step fails
\* with the error that names the path of the executable; no process is
\* spawned and no browser is opened for it, and a process is only ever
\* spawned for a build whose executable exists.
C18_SpawnStep ==
    /\ Len(cps') > Len(cps) => executableExists(disk[build])
    /\ (lpc = "await" /\ lpc' # lpc /\ ~executableExists(disk[build]))
          => /\ lpc' = "failed"
             /\ lerror' = [kind |-> "missingExecutable",
                           path |-> [runtime |-> runtime, commit |-> build,
                                     file |-> "executable"]]
             /\ cps' = cps
             /\ opened' = <<>>
             /\ instance' = NoInstance

\* C18: every step is as in C18_SpawnStep and a launch that failed for its
\* executable left no process and no opened URL.
C18_MissingExecutableFails ==
    /\ [][C18_SpawnStep]_vars
    /\ [](lerror.kind = "missingExecutable"
            => (lpc = "failed" /\ runtime # WebRemote /\ opened = <<>>
                /\ Len(cps) = launched - 1))

C18_Witness ==
    /\ lerror.kind = "missingExecutable"
    /\ launched = 2
    /\ disk[build] = "archive"
    /\ extractions[build] = 1
    /\ Len(cps) = 1

\* the URL of the first line of a chunk that holds the readiness pattern
HasReadinessLine(chunk) == \E i \in DOMAIN chunk : chunk[i] > 0
FirstReadinessLine(chunk) ==
    CHOOSE i \in DOMAIN chunk : chunk[i] > 0 /\ \A j \in 1..(i - 1) : chunk[j] = 0
CapturedUrl(chunk) == [kind |-> "local", id |-> chunk[FirstReadinessLine(chunk)]]

\* C19: the launch of a local web build completes, and a URL is opened, only
\* in the step that receives a chunk of server output with the readiness
\* pattern; the URL opened is the one captured from that chunk and it is the
\* URL of the instance; at most one URL is opened per launch.
C19_ReadyStep ==
    (runtime = WebLocal /\ (Len(opened') > Len(opened) \/ (lpc = "await" /\ lpc' = "launched")))
        => /\ HasReadinessLine(stdout')
           /\ opened' = <<CapturedUrl(stdout')>>
           /\ instance'.url = CapturedUrl(stdout')
           /\ lpc = "await"
           /\ lpc' = "launched"

\* C19: every step is as in C19_ReadyStep; no URL is opened before the launch
\* completed and exactly one after.
C19_OpensCapturedUrlOnce ==
    /\ [][C19_ReadyStep]_vars
    /\ [](runtime = WebLocal
            => /\ Len(opened) <= 1
               /\ lpc \in {"install", "download", "unzip", "await"} => opened = <<>>
               /\ lpc \in {"launched", "stopping"} => opened = <<instance.url>>)

C19_Witness ==
    /\ runtime = WebLocal
    /\ lpc = "launched"
    /\ stdout = <<1, 2>>
    /\ opened = <<[kind |-> "local", id |-> 1]>>
    /\ launched = 2

\* C20: when the local web server exits before it printed the readiness
\* line, the launch ends with a fatal error.
C20_ExitBeforeReadyIsFatal ==
    (\E r \in DOMAIN runs : runs[r].pc = "waitReady" /\ cps[runs[r].cp].state = "exited")
        ~> (lpc \in {"failed", "crashed"})

\* the verdicts recorded so far: the positions in judged with the answer a
Judged(a) == {i \in DOMAIN judged : judged[i].answer = a}
MostRecent(a) ==
    IF Judged(a) = {} THEN NoBuild
    ELSE judged[CHOOSE i \in Judged(a) : \A j \in Judged(a) : j <= i].index

ReportOfVerdicts ==
    IF Judged(Bad) # {} /\ Judged(Good) # {} THEN "pair"
    ELSE IF Judged(Bad) # {} THEN "allBad"
    ELSE IF Judged(Good) # {} THEN "allGood"
    ELSE "noBuilds"

\* C25: a session that completes without Quit and without an error reports
\* what the recorded verdicts say: the pair when a Bad and a Good verdict were
\* recorded, all bad (all good) when only Bad (Good) verdicts were recorded,
\* no builds when none was recorded; the reported bad (good) build is the one
\* most recently judged Bad (Good).
C25_ReportFollowsVerdicts ==
    (pc = "done" /\ fetches > 0 /\ error = NoError /\ ~quit)
        => /\ report = ReportOfVerdicts
           /\ badBuild = MostRecent(Bad)
           /\ goodBuild = MostRecent(Good)

C25_Witness ==
    /\ EndedNormally
    /\ report = "pair"
    /\ Cardinality(Judged(Bad)) >= 2
    /\ Cardinality(Judged(Good)) >= 2
    /\ Judged(Retry) # {}
    /\ badBuild = MostRecent(Bad)
    /\ badBuild # judged[CHOOSE i \in Judged(Bad) : \A j \in Judged(Bad) : i <= j].index

\* C26: the command exits with code 1 exactly when fetching the catalog,
\* launching (installing included), stopping or bisecting failed with an
\* error, and with code 0 when the session completed or was quit at a bound
\* prompt or at a verdict prompt.
C26_ExitCode ==
    /\ exitCode \in {NotExited, 0, 1}
    /\ pc = "done" <=> exitCode # NotExited
    /\ exitCode = 1 <=> error # NoError
    /\ error # NoError
          => error.kind \in {"network", "goodNotReleased", "badNotReleased",
                             "badNotNewer", "launch", "stop"}
    /\ (pc = "done" /\ error = NoError)
          => /\ exitCode = 0
             /\ \/ fetches = 0 /\ launches = <<>>
                \/ quit /\ report = "none"
                \/ ~quit /\ report # "none"

C26_Witness ==
    /\ pc = "done"
    /\ exitCode = 1
    /\ error.kind = "stop"
    /\ Verdicts >= 2
    /\ judged[Len(judged)].answer = Quit

\* C27: a Good or Bad step with currentChunk > 1 replaces currentChunk by
\* round(currentChunk / 2) and then adds the new currentChunk to currentIndex
\* on Bad and subtracts it on Good; a step with currentChunk = 1 changes
\* neither and ends the search.
C27_Step ==
    (pc = "stop" /\ response \in {Good, Bad} /\ error' = NoError)
        => IF state.currentChunk > 1
           THEN /\ state'.currentChunk = (state.currentChunk + 1) \div 2
                /\ state'.currentIndex =
                      (IF response = Bad
                       THEN state.currentIndex + state'.currentChunk
                       ELSE state.currentIndex - state'.currentChunk)
           ELSE /\ state' = state
                /\ pc' = "done"
                /\ report' # "none"

\* C27: every step is as in C27_Step.
C27_HalvingStep == [][C27_Step]_vars

C27_Witness ==
    /\ EndedNormally
    /\ Len(buildsRange) = 7
    /\ Verdicts = 3
    /\ judged[1].chunk = 4
    /\ judged[2].chunk = 2
    /\ judged[3].chunk = 1
    /\ judged[1].answer = Good
    /\ judged[2].answer = Bad
    /\ state.currentChunk = 1

\* a Good or Bad answer after which start tries a further build
NextBuildTried == pc = "stop" /\ response \in {Good, Bad} /\ pc' = "launch"

\* C28 as stated: after a Bad verdict the next build tried is newer (its
\* index is closer to 0), after a Good verdict it is older (its index is
\* closer to the end of the range).
C28_BadNewerStep ==
    NextBuildTried
        => IF response = Bad
           THEN state'.currentIndex < state.currentIndex
           ELSE state'.currentIndex > state.currentIndex

C28_BadTriesNewer == [][C28_BadNewerStep]_vars

\* C28, amended: after a Bad verdict the next build tried is older than the
\* one just judged (its index is larger, closer to the end of the range, the
\* good bound), after a Good verdict it is newer (its index is smaller,
\* closer to index 0, the bad bound).
C28_BadOlderStep ==
    NextBuildTried
        => /\ state'.currentIndex \in 0..(Len(buildsRange) - 1)
           /\ IF response = Bad
              THEN state'.currentIndex > state.currentIndex
              ELSE state'.currentIndex < state.currentIndex

\* C28, amended: every step is as in C28_BadOlderStep.
C28_BadTriesOlder == [][C28_BadOlderStep]_vars

C28_Witness ==
    /\ pc = "prompt"
    /\ Len(launches) = 3
    /\ judged[1].answer = Bad
    /\ judged[2].answer = Good
    /\ launches[2] > launches[1]
    /\ launches[3] < launches[2]

\* C29: in every state of a bisection over n >= 2 builds currentIndex lies
\* within [0, n).
C29_IndexInRange ==
    Searched => state.currentIndex \in 0..(Len(buildsRange) - 1)

\* currentIndex is the index of a build of the range
InRange(st) == st.currentIndex \in 0..(Len(buildsRange) - 1)

\* C30: a step that moves currentIndex out of [0, n) ends the loop: nothing
\* is launched and no verdict is asked after it, and the report is the one of
\* the verdicts recorded so far.
C30_Step ==
    (pc = "stop" /\ response \in {Good, Bad} /\ error' = NoError /\ ~InRange(state'))
        => /\ pc' = "done"
           /\ launches' = launches
           /\ judged' = judged
           /\ report' = ReportOfVerdicts

\* C30: every step is as in C30_Step, every build launched has an index in
\* [0, n), and while a build is launched, judged or stopped currentIndex is
\* in [0, n).
C30_NoLaunchOutOfRange ==
    /\ [][C30_Step]_vars
    /\ [](/\ \A i \in DOMAIN launches : launches[i] \in 0..(Len(buildsRange) - 1)
          /\ pc \in {"launch", "prompt", "stop"} => InRange(state)
          /\ (Searched /\ ~InRange(state))
                => (pc = "done" /\ report = ReportOfVerdicts
                    /\ judged[Len(judged)].index = launches[Len(launches)]))

C30_Witness ==
    /\ EndedNormally
    /\ state.currentIndex < 0
    /\ state.currentChunk = 1
    /\ report = "allGood"
    /\ Len(launches) = 3

C30_WitnessBeyondEnd ==
    /\ EndedNormally
    /\ state.currentIndex = Len(buildsRange)
    /\ report = "allBad"

\* the processes and browsers that run r started
StartedBy(r) == {c \in DOMAIN cps : cps[c].run = r}

\* the termination of c was started: it is signalled or has exited, or its
\* kill or close has not called back yet
StopStarted(c) == cps[c].state # "running" \/ \E k \in pending : k.cp = c

\* C21: when the timeout wins the race of a measured run, every process and
\* browser that run started (before or after the abort) is stopped, the run
\* adds no sample, and measure goes on with the remaining runs.
C21_TimedOutRunStopped ==
    \A r \in DOMAIN runs :
        runs[r].aborted
            => /\ \A c \in StartedBy(r) : StopStarted(c)
               /\ lerror.kind # "unhandledRejection"
               /\ Cardinality(samples) <= Cardinality({q \in DOMAIN runs : ~runs[q].aborted})

Min(S) == CHOOSE m \in S : \A e \in S : m <= e

\* a run that is not timed out resolves in this step
SampleStep ==
    \E r \in DOMAIN runs :
        /\ runs[r].pc \notin {"resolved", "rejected"}
        /\ runs'[r].pc = "resolved"
        /\ ~runs'[r].aborted
        /\ lpc = "race"

\* C22: the instance measure returns has the minimum of the numbers that the
\* runs not timed out resolved with as its ellapsed, and undefined when there
\* was no such number; a number is only added by a run that is not timed out.
C22_Step ==
    /\ samples' # samples => (SampleStep /\ samples \subseteq samples')
    /\ (instance'.kind = "measured" /\ instance.kind # "measured")
          => instance'.ellapsed = (IF samples' = {} THEN Undefined ELSE Min(samples'))

C22_WitnessTimedOut ==
    /\ instance.kind = "measured"
    /\ runs[1].aborted
    /\ samples = {2}
    /\ instance.ellapsed = 2

C22_WitnessUndefined ==
    /\ instance.kind = "measured"
    /\ runtime = DesktopLocal
    /\ \A r \in DOMAIN runs : ~runs[r].aborted
    /\ instance.ellapsed = Undefined

\* C23: with --perf a desktop launch returns only after the spawned process
\* has terminated, and returns normally, with ellapsed undefined, when the
\* results file is absent or does not begin with a number: the launch never
\* fails for the results file.
C23_ResultsFileIsSoft ==
    (runtime = DesktopLocal /\ performance)
        => /\ lerror.kind # "performanceFile"
           /\ \A r \in DOMAIN runs :
                 (runs[r].pc = "resolved" /\ ~runs[r].aborted)
                     => cps[runs[r].cp].state = "exited"

\* C24 as stated: launching a remote web build installs nothing and spawns
\* no local process: it only opens the URL of the commit.
C24_RemoteOnlyOpensUrl ==
    runtime = WebRemote
        => /\ cps = <<>>
           /\ lpc \notin {"install", "download", "unzip"}
           /\ \A c \in Commits : downloads[c] = 0 /\ extractions[c] = 0
           /\ lpc = "launched" => opened = <<VSCODE_DEV_URL(build)>>

\* C24, amended: launching a remote web build never installs an archive and
\* never spawns a process of the build; without --perf it starts no process
\* at all and only opens the URL of the commit, with --perf it opens nothing
\* and launches a browser for each measured run; stop() of the instance that
\* launch returned resolves and changes nothing.
C24_RemoteState ==
    runtime = WebRemote
        => /\ lpc \notin {"install", "download", "unzip", "failed"}
           /\ \A c \in Commits : downloads[c] = 0 /\ extractions[c] = 0
           /\ \A c \in DOMAIN cps : cps[c].kind = "browser"
           /\ performance => opened = <<>>
           /\ ~performance
                 => /\ cps = <<>>
                    /\ pending = {}
                    /\ lpc = "launched"
                          => /\ opened = <<[kind |-> "remote", id |-> build]>>
                             /\ instance.kind = "noop"
           /\ (performance /\ lpc = "launched") => instance.kind = "measured"

C24_StopStep ==
    (runtime = WebRemote /\ Len(stops') > Len(stops))
        => /\ stops'[Len(stops')] = "resolved"
           /\ cps' = cps
           /\ pending' = pending
           /\ disk' = disk
           /\ opened' = opened
           /\ instance' = instance
           /\ lpc' = lpc

\* C24, amended: every state is as in C24_RemoteState and every stop() as in
\* C24_StopStep.
C24_RemoteNeverInstalls ==
    /\ [](C24_RemoteState)
    /\ [][C24_StopStep]_vars

C24_Witness ==
    /\ runtime = WebRemote
    /\ ~performance
    /\ launched = 2
    /\ build = 2
    /\ opened = <<[kind |-> "remote", id |-> 2]>>
    /\ stops = <<"resolved", "resolved">>
    /\ cps = <<>>

C24_WitnessPerformance ==
    /\ runtime = WebRemote
    /\ performance
    /\ lpc = "launched"
    /\ Len(cps) = 2
    /\ stops = <<"resolved">>

\* the Good and Bad answers of the session in order, TRUE for Good
VerdictSeq ==
    LET given == SelectSeq(judged, LAMBDA j : j.answer \in {Good, Bad})
    IN  [i \in DOMAIN given |-> given[i].answer = Good]

\* the launches of the session without those that repeat a build after Retry
FirstLaunches ==
    LET firsts == {k \in DOMAIN launches : k = 1 \/ judged[k - 1].answer # Retry}
        nth[k \in 0..Len(launches)] ==
            IF k = 0 THEN <<>>
            ELSE IF k \in firsts THEN Append(nth[k - 1], launches[k]) ELSE nth[k - 1]
    IN  nth[Len(launches)]

\* s is the beginning of t
IsPrefix(s, t) == Len(s) <= Len(t) /\ s = SubSeq(t, 1, Len(s))

\* C31: for every range of n >= 2 builds the search that starts at
\* {currentChunk: n, currentIndex: 0} with one Bad step and the search that
\* starts in the middle begin in the same state, currentChunk = currentIndex =
\* round(n / 2), an index within [0, n); and for every sequence of Good / Bad
\* verdicts the builds the session launches are the ones the start-in-the-
\* middle engine launches for these verdicts, in the same order, and both end
\* together.
C31_SameSearch ==
    Searched =>
        /\ initialState(buildsRange) = middleState(buildsRange)
        /\ middleState(buildsRange).currentIndex \in 0..(Len(buildsRange) - 1)
        /\ LET middle == middleSearch(buildsRange, middleState(buildsRange), VerdictSeq)
           IN  /\ IsPrefix(FirstLaunches, middle)
               /\ Len(middle) <= Len(FirstLaunches) + 1
               /\ (pc = "prompt" \/ EndedNormally)
                     => FirstLaunches = middle
               /\ (pc = "launch" /\ response # Retry)
                     => Len(middle) = Len(FirstLaunches) + 1 /\ middle[Len(middle)] = state.currentIndex

C31_Witness ==
    /\ EndedNormally
    /\ Len(buildsRange) = MaxBuilds
    /\ Len(FirstLaunches) >= 3
    /\ \E i, j \in DOMAIN VerdictSeq : VerdictSeq[i] /\ ~VerdictSeq[j]

\* C32: without Retry answers no index of the range is launched and judged
\* more than once in one session.
C32_NoIndexJudgedTwice ==
    (\A k \in DOMAIN judged : judged[k].answer # Retry)
        => \A i, j \in DOMAIN judged : judged[i].index = judged[j].index => i = j

\* installBuild returns to launch without an error in this step
InstallReturns == lpc \in {"install", "unzip"} /\ lpc' \in {"launched", "race", "await"}

\* C34: whenever installBuild returns without an error the archive of the
\* build has been completely downloaded and extracted, also when an earlier
\* installBuild of the build ended after the archive file had been created.
C34_Step == InstallReturns => disk'[build] = "installed"

C34_ReturnMeansInstalled == [][C34_Step]_vars

\* the file a path names: the text of its last segment
FileOf(path) == path[Len(path)].text

\* C33: getBuildExecutable returns a path for every runtime and platform, and
\* the executable it names belongs to the requested runtime: server.sh or
\* server.cmd for Web, Electron, code-insiders or 'Code - Insiders.exe' for
\* Desktop.
C33_ExecutableOfRuntime ==
    call.op = "getBuildExecutable" =>
        /\ call.path # <<>>
        /\ call.runtime = WebLocal => FileOf(call.path) \in {"server.sh", "server.cmd"}
        /\ call.runtime = DesktopLocal =>
              FileOf(call.path) \in {"Electron", "code-insiders", "Code - Insiders.exe"}

\* C35: a cached install is reused only for the commit that produced it:
\* two different commits of one runtime use different paths on every
\* platform, so installBuild finds a build cached only if the archive at its
\* path was installed for the same commit.
C35_CachedOnlyForOwnCommit ==
    (call.op = "installBuild" /\ call.cached) => call.holds = call.commit

\* launcher.launch is called in this step, by the bisecter or by main
LaunchStep == launches' # launches \/ mainLaunches' # mainLaunches

\* some build was launched in the session
HasLaunched == launches # <<>> \/ mainLaunches # <<>>

\* C36: the data folder exists at the moment of every launch, for every
\* combination of options (--reset included), and it is not deleted between
\* two launches of a session.
C36_Step ==
    /\ LaunchStep => dataFolder
    /\ (HasLaunched /\ dataFolder) => dataFolder'

C36_DataFolderAtLaunch == [][C36_Step]_vars

\* the build that --commit names
CommitNamed == IF optsCommit = Latest THEN At(catalog, 0) ELSE optsCommit

\* C37: with --commit no bound is prompted for and the bounds are left as
\* given, the bisection is never started (no range, no launch of the loop, no
\* verdict, no report), at most one build is launched and it is the commit
\* given (for 'latest' the first entry of the catalog), and a session that
\* ends without an error has launched exactly one.
C37_CommitSupersedes ==
    (optsCommit # Undefined /\ pc # "main") =>
        /\ pc \in {"resolve", "launchCommit", "done"}
        /\ buildsRange = <<>> /\ launches = <<>> /\ judged = <<>> /\ report = "none"
        /\ Len(mainLaunches) <= 1
        /\ \A i \in DOMAIN mainLaunches : mainLaunches[i] = CommitNamed
        /\ (pc = "done" /\ error = NoError) => Len(mainLaunches) = 1
        /\ (optsCommit # Latest) => fetches = 0

\* C37: the bounds are not changed by a session with --commit
C37_Step == optsCommit # Undefined => (goodCommit' = goodCommit /\ badCommit' = badCommit)

C37_NoBisection == [](C37_CommitSupersedes) /\ [][C37_Step]_vars

C37_Witness ==
    /\ optsCommit = Latest
    /\ goodCommit = Undefined
    /\ badCommit # Undefined
    /\ Len(catalog) = MaxBuilds
    /\ pc = "done"
    /\ mainLaunches = <<MaxBuilds>>
====
